---------------------------- MODULE Spec2Model ----------------------------
(***************************************************************************)
(* A model of the mass comment acquisition pipeline of RevuAI              *)
(* (python-backend/reddit_fetcher.py).                                     *)
(*                                                                         *)
(* These specifications share this module:                                 *)
(*   Spec          MultiAccountRedditFetcher.fetch_mass_comments, the      *)
(*                 orchestrator: discovery, submission, merge, final sort  *)
(*                 and truncation;                                         *)
(*   SpecComments  fetch_comments_lightweight with its nested              *)
(*                 extract_comments, one call over the accounts;           *)
(*   SpecRate      TokenBucket and _safe_get run by several worker threads *)
(*                 against a clock;                                        *)
(*   SpecAuth      _authenticate_account as _safe_get calls it, two worker *)
(*                 threads on two account sessions;                        *)
(*   SpecRelevance is_relevant (python-backend/testing.py), one call;      *)
(*   SpecSubmit    the estimate and the submission of the comment fetches  *)
(*                 of fetch_mass_comments, after a large discovery;        *)
(*   SpecCooldown  _safe_get of one thread with a cached token, against    *)
(*                 answers with short and long reset hints;                *)
(*   SpecRetry     the loops of fetch_posts_batch and of                   *)
(*                 fetch_comments_lightweight over the accounts, one call, *)
(*                 and SpecRetryFair, the same with its turns taken;       *)
(*   SpecBucket    _safe_get of two threads with a cached token, every GET *)
(*                 counted against the bucket;                             *)
(*   SpecWaitFair  TokenBucket.wait_for_token called again and again by    *)
(*                 three threads, with and without timeout, under fair     *)
(*                 scheduling (SpecWait without it);                       *)
(*   SpecFast      FastRedditFetcher.fetch_mass_comments                   *)
(*                 (python-backend/fast_reddit_fetcher.py), a sequence of  *)
(*                 calls over its 24-hour cache.                           *)
(* Each specification moves only its own variables.                        *)
(***************************************************************************)
EXTENDS Integers, Sequences, FiniteSets, TLC

VARIABLES
    \* ---- fetch_mass_comments (Spec) ----
    pc,                \* position of the orchestrating thread
    target_comments,   \* the argument target_comments (= comments_needed)
    strat_pending,     \* strategy futures as_completed has not yielded yet
    all_posts,         \* list all_posts
    posts_to_process,  \* list posts_to_process, each post as its permalink
    fetch_pending,     \* comment futures as_completed has not yielded yet
    fetch_started,     \* comment futures a worker of the pool has begun
    comments_by_id,    \* dict comments_by_id, in insertion order
    final,             \* list final (the result's 'comments')
    strat_account,     \* per strategy future, the account_idx it was submitted with
    fetch_account,     \* per comment future, the acc_index it was submitted with
    last_merged,       \* history: per comment id, the instance merged last
    replaced           \* history: a merge met an id the dict held with other content

VARIABLES
    \* ---- fetch_comments_lightweight (SpecComments) ----
    cf_pc,          \* "calling", "returned" or "raised"
    cf_attempt,     \* the loop variable attempt
    cf_min_score,   \* the argument min_score
    cf_query,       \* the argument query
    cf_data,        \* the parsed body of the response the call worked on
    cf_results,      \* list results
    cf_post_counts     \* num_comments of the posts the run discovered, as
                       \* ranked at line 395

VARIABLES
    \* ---- TokenBucket, AccountSession, _safe_get (SpecRate) ----
    now,                 \* the clock _now_ts(), in ticks
    tokens,              \* TokenBucket._tokens, per account, in token units
    last,                \* TokenBucket._last, per account
    rate_limited_until,  \* AccountSession.rate_limited_until
    access_token,        \* AccountSession.access_token
    token_expires_at,    \* AccountSession.token_expires_at
    next_available,      \* AccountSession.next_available
    lock,                \* holder of AccountSession.lock, 0 when free
    th_pc,               \* per worker thread, its position in _safe_get
    th_start,            \* per worker thread, start of wait_for_token
                         \* (0 outside wait_for_token)
    th_acc,              \* per worker thread, the acc_sess of its calls
    th_token,            \* per worker thread, the token line 202 received
    th_owed,             \* history: per worker thread, the token of the
                         \* exchange that succeeded while the thread was
                         \* waiting for the lock of the session
    rejected,            \* history: the upstream rejected an exchange of
                         \* the account
    limited_by,          \* history: rate_limited_until was last set by
                         \* a 429 ("429"), an exhausted quota ("quota")
                         \* or anything else ("other")
    answered,            \* history: per account, the answer to a GET that
                         \* _safe_get looked at last (SpecCooldown)
    refill_capped,       \* history: a refill was cut at the capacity
    returned_failed,     \* history: _safe_get returned a response whose
                         \* status is 400 or above
    gets_done,           \* history: per account, the GETs sent with it and
                         \* answered (SpecBucket)
    blocked_in_cooldown  \* history: a call was refused at line 198 after a
                         \* 429 or an exhausted quota, its token consumed

VARIABLES
    \* ---- the retry loops over the accounts (SpecRetry) ----
    cf_account_idx,  \* fetch_comments_lightweight: the argument account_idx
    cf_tried,        \* history: per turn of its loop, the account asked and
                     \* what _safe_get met there
    pb_pc,           \* fetch_posts_batch: "calling", "returned" or "raised"
    pb_query,        \* the argument query
    pb_account_idx,  \* the variable account_idx
    pb_attempts,     \* the variable attempts
    pb_tried,        \* history: per turn of its loop, the account asked and
                     \* what _safe_get met there
    pb_posts,        \* the children of the search response worked on
    pb_result        \* list text_posts, as returned

VARIABLES
    \* ---- is_relevant (SpecRelevance) ----
    rel_pc,        \* "idle", "called" or "returned"
    rel_text,      \* the argument text
    rel_query,     \* the argument query
    rel_relaxed,   \* the argument relaxed
    rel_result     \* the value returned

VARIABLES
    \* ---- FastRedditFetcher.fetch_mass_comments (SpecFast) ----
    fc_pc,         \* "idle", then how the last call ended: "returned", "raised"
    fc_query,      \* the argument query of the last call
    fc_target,     \* its argument target_comments
    fc_min_score,  \* its argument min_score
    fc_result,     \* the list 'comments' of what it returned
    fc_cached,     \* history: the last call was answered from the cache
    fc_cache,      \* per cache file of pre-process/, its 'comments', the
                   \* 'query' of its metadata and its modification time
    fc_clock       \* the wall clock, in ticks of HoursPerTick hours

orchVars == <<pc, target_comments, strat_pending, all_posts, posts_to_process,
              fetch_pending, fetch_started, comments_by_id, final,
              strat_account, fetch_account, last_merged, replaced>>

cfVars == <<cf_pc, cf_attempt, cf_min_score, cf_query, cf_data, cf_results,
            cf_post_counts>>

rateVars == <<now, tokens, last, rate_limited_until, access_token,
              token_expires_at, next_available, lock, th_pc, th_start,
              th_acc, th_token, th_owed, rejected, answered,
              limited_by, refill_capped, blocked_in_cooldown,
              returned_failed, gets_done>>

relVars == <<rel_pc, rel_text, rel_query, rel_relaxed, rel_result>>

pbVars == <<pb_pc, pb_query, pb_account_idx, pb_attempts, pb_tried, pb_posts,
            pb_result>>

retryVars == <<cf_account_idx, cf_tried, pbVars>>

fastVars == <<fc_pc, fc_query, fc_target, fc_min_score, fc_result, fc_cached,
              fc_cache, fc_clock>>

vars == <<orchVars, cfVars, rateVars, relVars, retryVars, fastVars>>

\* what a step of one specification leaves alone
OrchOnly == UNCHANGED <<cfVars, rateVars, relVars, retryVars, fastVars>>
CfOnly ==
    UNCHANGED <<orchVars, rateVars, relVars, pbVars, cf_account_idx, fastVars>>
RateOnly ==
    UNCHANGED <<orchVars, cfVars, relVars, retryVars, fastVars, answered,
                returned_failed, gets_done>>
RelOnly == UNCHANGED <<orchVars, cfVars, rateVars, retryVars, fastVars>>
PbOnly ==
    UNCHANGED <<orchVars, cfVars, rateVars, relVars, cf_account_idx, cf_tried,
                fastVars>>
FastOnly == UNCHANGED <<orchVars, cfVars, rateVars, relVars, retryVars>>

-----------------------------------------------------------------------------
(* Bounds of the model *)

\* the code submits six strategies (reddit_fetcher.py:369-376); the model
\* runs this many of them
NumStrategies == 2
\* post ids and comment ids are drawn from 1..MaxId
MaxId == 2
\* scores and comment counts are drawn from 0..MaxVal
MaxVal == 1
\* target_comments is drawn from -1..MaxTarget
MaxTarget == 2
\* account sessions of the fetcher
NumAccounts == 2
\* nesting levels of the comment trees the upstream delivers
TreeDepth == 5
\* the clock of SpecRate runs from 0 to MaxTime ticks
MaxTime == 4
\* the clock of SpecAuth runs from 0 to MaxAuthTime ticks
MaxAuthTime == 6
\* an expires_in, in seconds, under the buffer of the token cache
ShortExpiresIn == 5
\* the texts given to is_relevant have up to MaxTextWords words
MaxTextWords == 3
\* SpecSubmit ranks up to MaxPosts discovered posts
MaxPosts == 203
\* the wall clock of SpecFast stops after this many ticks
MaxFastTime == 2

(* Program constants *)
DefaultMinScore == 5
MinBodyLen == 10
MaxReplyDepth == 3
MinKeywordLen == 2
MinTitleLen == 20
AttemptsPerAccount == 2
MAX_REQUESTS_PER_MINUTE_PER_ACCOUNT == 120
GLOBAL_MAX_WORKERS == 24
WorkersPerAccount == 8
BurstCapacity == 4
WaitTimeoutSeconds == 3
AuthErrorCooldownSeconds == 10
NetworkErrorCooldownSeconds == 1
BackoffBaseSeconds == 2
BackoffSpreadSeconds == 3
QuotaJitterMaxSeconds == 3
TokenBufferSeconds == 10
AuthBackoffBaseSeconds == 5
AuthBackoffSpreadSeconds == 3
DefaultExpiresIn == 3600
\* the clock of the model ticks once a second
TicksPerSecond == 1
comments_per_post == 30
CACHE_EXPIRY_HOURS == 24
posts_margin == 200

\* the absent entry of a per-id history
None == [id |-> 0, score |-> 0]

-----------------------------------------------------------------------------
(* Python list and dict helpers *)

Min2(a, b) == IF a <= b THEN a ELSE b
Max2(a, b) == IF a >= b THEN a ELSE b

PySliceNone(seq, n) == seq

\* seq[:n] with Python's meaning of a negative n
PySlicePrefix(seq, n) ==
    IF n >= 0 THEN SubSeq(seq, 1, Min2(n, Len(seq)))
    ELSE SubSeq(seq, 1, Max2(0, Len(seq) + n))

\* position of the entry of key id in an insertion-ordered dict, 0 if absent
DictIndex(d, id) ==
    IF \E i \in DOMAIN d : d[i].id = id
    THEN CHOOSE i \in DOMAIN d : d[i].id = id
    ELSE 0

DictPutFirstWins(d, c) ==
    IF DictIndex(d, c.id) = 0 THEN Append(d, c) ELSE d

DictPutAppend(d, c) == Append(d, c)

\* d[c['id']] = c : a new key goes last, an existing key keeps its place and
\* takes the new value
DictPut(d, c) ==
    IF DictIndex(d, c.id) = 0 THEN Append(d, c)
    ELSE [d EXCEPT ![DictIndex(d, c.id)] = c]

RECURSIVE DictPutAll(_, _)
DictPutAll(d, cs) ==
    IF cs = <<>> THEN d ELSE DictPutAll(DictPut(d, Head(cs)), Tail(cs))

\* insert x behind every element whose key is >= x's: what a stable
\* descending sort does with equal keys
RECURSIVE InsertDesc(_, _, _)
InsertDesc(sorted, x, key) ==
    IF sorted = <<>> THEN <<x>>
    ELSE IF Head(sorted)[key] >= x[key]
         THEN <<Head(sorted)>> \o InsertDesc(Tail(sorted), x, key)
         ELSE <<x>> \o sorted

RECURSIVE SortDescFrom(_, _, _)
SortDescFrom(acc, seq, key) ==
    IF seq = <<>> THEN acc
    ELSE SortDescFrom(InsertDesc(acc, Head(seq), key), Tail(seq), key)

SortDescUnsorted(seq, key) == seq

\* list.sort(key=lambda x: x[key], reverse=True)
SortDesc(seq, key) == SortDescFrom(<<>>, seq, key)

-----------------------------------------------------------------------------
(* fetch_mass_comments: the data the upstream can deliver *)

Strategies == 1 .. NumStrategies
Ids == 1 .. MaxId
Vals == 0 .. MaxVal

\* a search result child, reduced to the fields fetch_mass_comments reads
Posts == [id : Ids, num_comments : Vals]

\* a record emitted by fetch_comments_lightweight
Comments == [id : Ids, score : Vals]

\* what a fetch_posts_batch future yields when it does not raise
PostLists == {<<>>} \cup {<<p>> : p \in Posts}

\* what a fetch_comments_lightweight future yields when it does not raise
CommentLists ==
    {<<>>} \cup {<<c>> : c \in Comments} \cup {<<c, d>> : c, d \in Comments}

\* what as_completed hands over for a future: its value, or its exception
Raised == [raised |-> TRUE, value |-> <<>>]
Returned(v) == [raised |-> FALSE, value |-> v]
PostOutcomes == {Raised} \cup {Returned(v) : v \in PostLists}
CommentOutcomes == {Raised} \cup {Returned(v) : v \in CommentLists}

\* list(all_posts) in the place of the dict
DedupPostsKeepAll(d, ps) == d \o ps

\* {p['data']['id']: p for p in all_posts} followed by list(uniq.values())
RECURSIVE DedupPosts(_, _)
DedupPosts(d, ps) ==
    IF ps = <<>> THEN d ELSE DedupPosts(DictPut(d, Head(ps)), Tail(ps))

\* every post found is processed
EstimatedPostsAll(n_posts, comments_needed) == n_posts

\* estimated_posts (x // 30 is the floor, as \div is)
EstimatedPosts(n_posts, comments_needed) ==
    Min2(n_posts, (comments_needed \div comments_per_post) + posts_margin)

\* the only field of a post read once the posts are ranked (line 412)
Permalink(p) == p.id

Permalinks(ps) == [i \in DOMAIN ps |-> Permalink(ps[i])]

\* the last instance of an id in a merged batch
Has(cs, id) == \E k \in DOMAIN cs : cs[k].id = id
LastIn(cs, id) == cs[CHOOSE k \in DOMAIN cs :
                        cs[k].id = id /\ \A j \in (k + 1) .. Len(cs) : cs[j].id # id]

\* a put of the batch meets a key the dict holds with another value
RECURSIVE Replaces(_, _)
Replaces(d, cs) ==
    /\ cs # <<>>
    /\ \/ /\ DictIndex(d, Head(cs).id) # 0
          /\ d[DictIndex(d, Head(cs).id)] # Head(cs)
       \/ Replaces(DictPut(d, Head(cs)), Tail(cs))

-----------------------------------------------------------------------------
(* fetch_mass_comments: the orchestrating thread *)

\* every submission gets account 0
AccountForFirst(idx) == 0

\* account_idx = idx % len(self.account_sessions) (line 382) and
\* acc_index = i % len(self.account_sessions) (line 411), idx and i counting
\* from 0 as enumerate does
AccountFor(idx) == idx % NumAccounts

OrchInit ==
    /\ pc = "discovering"
    /\ target_comments \in (0 - 1) .. MaxTarget
    /\ strat_pending = Strategies
    /\ all_posts = <<>>
    /\ posts_to_process = <<>>
    /\ fetch_pending = {}
    /\ fetch_started = {}
    /\ strat_account = [s \in Strategies |-> AccountFor(s - 1)]
    /\ fetch_account = <<>>
    /\ comments_by_id = <<>>
    /\ final = <<>>
    /\ last_merged = [i \in Ids |-> None]
    /\ replaced = FALSE

\* one turn of "for f in as_completed(futures)" of phase 1: the strategy's
\* posts are appended, or its exception is printed and dropped
StrategyDone(s, outcome) ==
    /\ pc = "discovering"
    /\ s \in strat_pending
    /\ strat_pending' = strat_pending \ {s}
    /\ all_posts' = IF outcome.raised THEN all_posts
                    ELSE all_posts \o outcome.value
    /\ UNCHANGED <<pc, target_comments, posts_to_process, fetch_pending,
                   fetch_started, comments_by_id, final, last_merged, replaced>>
    /\ UNCHANGED <<strat_account, fetch_account>>
    /\ OrchOnly

\* lines 392-395 run while strategy futures are still out
RankPostsEarly ==
    /\ pc = "discovering"
    /\ all_posts' = SortDesc(DedupPosts(<<>>, all_posts), "num_comments")
    /\ pc' = "ranked"
    /\ UNCHANGED <<target_comments, strat_pending, posts_to_process,
                   fetch_pending, fetch_started, comments_by_id, final,
                   last_merged, replaced>>
    /\ UNCHANGED <<strat_account, fetch_account>>
    /\ OrchOnly

\* lines 392-395, reached when the "with ThreadPoolExecutor" block of phase 1
\* has ended and as_completed has yielded every strategy future: dedupe the
\* posts by id, sort them by num_comments
RankPosts ==
    /\ pc = "discovering"
    /\ strat_pending = {}
    /\ all_posts' = SortDesc(DedupPosts(<<>>, all_posts), "num_comments")
    /\ pc' = "ranked"
    /\ UNCHANGED <<target_comments, strat_pending, posts_to_process,
                   fetch_pending, fetch_started, comments_by_id, final,
                   last_merged, replaced>>
    /\ UNCHANGED <<strat_account, fetch_account>>
    /\ OrchOnly

SubmitFetchesRaising ==
    /\ pc = "ranked"
    /\ LET todo == PySlicePrefix(all_posts,
                        EstimatedPosts(Len(all_posts), target_comments))
       IN /\ posts_to_process' = Permalinks(todo)
          /\ fetch_pending' = DOMAIN todo
          /\ fetch_account' = [i \in DOMAIN todo |-> AccountFor(i - 1)]
          /\ pc' = IF todo = <<>> THEN "raised" ELSE "fetching"
    /\ all_posts' = <<>>
    /\ fetch_started' = {}
    /\ UNCHANGED <<target_comments, strat_pending, comments_by_id, final,
                   last_merged, replaced>>
    /\ UNCHANGED strat_account
    /\ OrchOnly

\* lines 398-414: cut the ranked posts to the estimate and submit one fetch
\* per post. all_posts is not read after line 402: the model drops it here
SubmitFetches ==
    /\ pc = "ranked"
    /\ LET todo == PySlicePrefix(all_posts,
                        EstimatedPosts(Len(all_posts), target_comments))
       IN /\ posts_to_process' = Permalinks(todo)
          /\ fetch_pending' = DOMAIN todo
          /\ fetch_account' = [i \in DOMAIN todo |-> AccountFor(i - 1)]
          /\ pc' = IF todo = <<>> THEN "finalizing" ELSE "fetching"
    /\ all_posts' = <<>>
    /\ fetch_started' = {}
    /\ UNCHANGED <<target_comments, strat_pending, comments_by_id, final,
                   last_merged, replaced>>
    /\ UNCHANGED strat_account
    /\ OrchOnly

\* one turn of "for fut in as_completed(futures)" of phase 2. slow: more
\* than a second has passed since the last progress update, so the update
\* computes current / comments_needed (lines 426-431)
FetchDone(i, outcome, slow) ==
    /\ pc = "fetching"
    /\ i \in fetch_pending
    /\ i \in fetch_started
    /\ fetch_pending' = fetch_pending \ {i}
    /\ IF outcome.raised
       THEN UNCHANGED <<comments_by_id, last_merged, replaced>>
       ELSE /\ comments_by_id' = DictPutAll(comments_by_id, outcome.value)
            /\ last_merged' = [id \in Ids |->
                   IF Has(outcome.value, id) THEN LastIn(outcome.value, id)
                   ELSE last_merged[id]]
            /\ replaced' = (replaced \/ Replaces(comments_by_id, outcome.value))
    /\ pc' = IF slow /\ target_comments = 0 THEN "raised"
             ELSE IF Len(comments_by_id') >= target_comments THEN "finalizing"
             ELSE IF fetch_pending' = {} THEN "finalizing"
             ELSE "fetching"
    /\ UNCHANGED <<target_comments, strat_pending, all_posts,
                   posts_to_process, fetch_started, final>>
    /\ UNCHANGED <<strat_account, fetch_account>>
    /\ OrchOnly

\* max_workers of the pool of phase 2 (line 407)
MaxCommentWorkers == Min2(NumAccounts * WorkersPerAccount, GLOBAL_MAX_WORKERS)

\* a worker of the pool takes a submitted fetch from the queue and begins
\* it: while the loop of as_completed runs, and during the shutdown(wait=True)
\* with which the "with ThreadPoolExecutor" block ends
StartFetch(i) ==
    /\ pc \in {"fetching", "finalizing"}
    /\ i \in fetch_pending \ fetch_started
    /\ Cardinality(fetch_pending \cap fetch_started) < MaxCommentWorkers
    /\ fetch_started' = fetch_started \cup {i}
    /\ UNCHANGED <<pc, target_comments, strat_pending, all_posts,
                   posts_to_process, fetch_pending, comments_by_id, final,
                   last_merged, replaced>>
    /\ UNCHANGED <<strat_account, fetch_account>>
    /\ OrchOnly

\* a fetch ends after the loop was left: nobody reads its result
FetchDiscarded(i) ==
    /\ pc = "finalizing"
    /\ i \in fetch_pending \cap fetch_started
    /\ fetch_pending' = fetch_pending \ {i}
    /\ UNCHANGED <<pc, target_comments, strat_pending, all_posts,
                   posts_to_process, fetch_started, comments_by_id, final,
                   last_merged, replaced>>
    /\ UNCHANGED <<strat_account, fetch_account>>
    /\ OrchOnly

\* lines 435-455, once the pool has shut down: final sort, truncation,
\* return
Finalize ==
    /\ pc = "finalizing"
    /\ fetch_pending = {}
    /\ final' = PySlicePrefix(SortDesc(comments_by_id, "score"), target_comments)
    /\ pc' = "done"
    /\ UNCHANGED <<target_comments, strat_pending, all_posts,
                   posts_to_process, fetch_pending, fetch_started,
                   comments_by_id, last_merged, replaced>>
    /\ UNCHANGED <<strat_account, fetch_account>>
    /\ OrchOnly

\* the division of the progress update can only fail for comments_needed = 0;
\* for any other target the update changes no state
SlowCases == IF target_comments = 0 THEN BOOLEAN ELSE {FALSE}

OrchNext ==
    \/ \E s \in strat_pending, o \in PostOutcomes : StrategyDone(s, o)
    \/ RankPosts
    \/ SubmitFetches
    \/ \E i \in fetch_pending : StartFetch(i)
    \/ \E i \in fetch_pending, o \in CommentOutcomes, slow \in SlowCases :
          FetchDone(i, o, slow)
    \/ \E i \in fetch_pending : FetchDiscarded(i)
    \/ Finalize

-----------------------------------------------------------------------------
(* fetch_mass_comments from line 398 on, after a discovery that found many  *)
(* posts                                                                   *)

\* all_posts as line 395 leaves it when n posts were found, the post of id j
\* having j comments: most comments first
RankedFound(n) == [i \in 1 .. n |-> [id |-> n + 1 - i, num_comments |-> n + 1 - i]]

\* values of target_comments around the multiples of comments_per_post, and
\* one far below zero
SubmitTargets == {0 - 6030, 0 - 1, 0, 29, 30, 89}

SubmitInit ==
    /\ pc = "ranked"
    /\ target_comments \in SubmitTargets
    /\ strat_pending = {}
    /\ all_posts \in {RankedFound(n) : n \in 0 .. MaxPosts}
    /\ posts_to_process = <<>>
    /\ fetch_pending = {}
    /\ fetch_started = {}
    /\ strat_account = [s \in Strategies |-> AccountFor(s - 1)]
    /\ fetch_account = <<>>
    /\ comments_by_id = <<>>
    /\ final = <<>>
    /\ last_merged = [i \in Ids |-> None]
    /\ replaced = FALSE

SubmitNext == SubmitFetches

-----------------------------------------------------------------------------
(* Python strings: a str is a sequence of one-character strings *)

UpperChars == <<"A", "B", "C", "D", "E", "F", "G", "H", "I", "J", "K", "L", "M", "N", "O", "P", "Q", "R", "S", "T", "U", "V", "W", "X", "Y", "Z">>
LowerChars == <<"a", "b", "c", "d", "e", "f", "g", "h", "i", "j", "k", "l", "m", "n", "o", "p", "q", "r", "s", "t", "u", "v", "w", "x", "y", "z">>

LowerChar(c) ==
    IF \E i \in DOMAIN UpperChars : UpperChars[i] = c
    THEN LowerChars[CHOOSE i \in DOMAIN UpperChars : UpperChars[i] = c]
    ELSE c

\* str.lower()
StrLower(t) == [i \in DOMAIN t |-> LowerChar(t[i])]

IsSpace(c) == c = " "

\* str.strip()
RECURSIVE LStrip(_)
LStrip(t) == IF t # <<>> /\ IsSpace(Head(t)) THEN LStrip(Tail(t)) ELSE t
RECURSIVE RStrip(_)
RStrip(t) ==
    IF t # <<>> /\ IsSpace(t[Len(t)]) THEN RStrip(SubSeq(t, 1, Len(t) - 1)) ELSE t
StrStrip(t) == RStrip(LStrip(t))

\* k in t
IsSubstring(k, t) ==
    \E i \in 0 .. (Len(t) - Len(k)) : SubSeq(t, i + 1, i + Len(k)) = k

\* str.split(): the maximal runs of non-space characters
RECURSIVE SplitFrom(_, _, _)
SplitFrom(t, word, acc) ==
    IF t = <<>> THEN (IF word = <<>> THEN acc ELSE Append(acc, word))
    ELSE IF IsSpace(Head(t))
         THEN SplitFrom(Tail(t), <<>>, IF word = <<>> THEN acc ELSE Append(acc, word))
         ELSE SplitFrom(Tail(t), Append(word, Head(t)), acc)
StrSplit(t) == SplitFrom(t, <<>>, <<>>)

\* [x for x in seq if Test(x)]
RECURSIVE LongWords(_)
LongWords(ws) ==
    IF ws = <<>> THEN <<>>
    ELSE (IF Len(StrStrip(Head(ws))) > MinKeywordLen
          THEN <<StrStrip(Head(ws))>> ELSE <<>>) \o LongWords(Tail(ws))

\* query_keywords of fetch_comments_lightweight (line 333)
QueryKeywords(query) ==
    IF query = <<>> THEN <<>> ELSE LongWords(StrSplit(StrLower(query)))

AnyKeywordIn(keywords, text) ==
    \E i \in DOMAIN keywords : IsSubstring(keywords[i], text)

-----------------------------------------------------------------------------
(* fetch_comments_lightweight: what the upstream can deliver *)

Deleted == <<"[", "d", "e", "l", "e", "t", "e", "d", "]">>
Removed == <<"[", "r", "e", "m", "o", "v", "e", "d", "]">>
Placeholders == {Deleted, Removed}

\* comment bodies: 14 characters with the keyword of the query; exactly 10
\* characters without it; a padded placeholder, 13 characters before strip()
\* and 9 after
BodyKeyword == <<"l", "o", "v", "e", " ", "m", "y", " ", "i", "P", "h", "o", "n", "e">>
BodyTen == <<"n", "i", "c", "e", " ", "p", "h", "o", "n", "e">>
BodyPaddedDeleted == <<" ", " ", "[", "d", "e", "l", "e", "t", "e", "d", "]", " ", " ">>

TitleKeyword == <<"i", "P", "h", "o", "n", "e", " ", "1", "5", " ", "d", "e", "a", "l", "s">>
QueryPhrase == <<"i", "P", "h", "o", "n", "e", " ", "1", "5">>
QueryShortWords == <<"t", "v", " ", "4", "k">>

MinScores == {DefaultMinScore, DefaultMinScore + 1}
Queries == {<<>>, QueryShortWords, QueryPhrase}
Titles == {<<>>, TitleKeyword}

\* score and body of a t1 node: the keyword of the query, a score above the
\* default min_score; no keyword, a score at the default min_score (under
\* the other min_score of the model); a placeholder with a score above both
NodeAttrs ==
    { [score |-> DefaultMinScore + 1, body |-> BodyKeyword],
      [score |-> DefaultMinScore, body |-> BodyTen],
      [score |-> DefaultMinScore + 1, body |-> BodyPaddedDeleted] }

\* a thread: one comment per nesting level, the comment at level d has id d + 1
RECURSIVE Chains(_)
Chains(d) ==
    IF d >= TreeDepth THEN {<<>>}
    ELSE {<<>>} \cup
         { <<[kind |-> "t1", id |-> d + 1, score |-> a.score, body |-> a.body,
              replies |-> r]>> : a \in NodeAttrs, r \in Chains(d + 1) }

MoreNode == [kind |-> "more", id |-> 0, score |-> 0, body |-> <<>>, replies |-> <<>>]
LeafNode == [kind |-> "t1", id |-> TreeDepth + 1, score |-> DefaultMinScore + 1,
             body |-> BodyKeyword, replies |-> <<>>]

\* data[1]['data']['children']: a thread, then nothing or a "more" stub and
\* a second top-level comment
CommentTrees == { c \o t : c \in Chains(0), t \in {<<>>, <<MoreNode, LeafNode>>} }

\* the body of a response: not JSON; JSON of fewer than two elements; JSON
\* whose second element is no listing; a post listing and a comment listing
Bodies ==
    { [shape |-> sh, title |-> <<>>, children |-> <<>>] :
          sh \in {"not_json", "short", "no_listing"} }
    \cup { [shape |-> "listing", title |-> t, children |-> c] :
              t \in Titles, c \in CommentTrees }

NoData == [shape |-> "none", title |-> <<>>, children |-> <<>>]

\* what _safe_get returns: None, or a response
SafeGetResults == {[resp |-> FALSE, body |-> NoData]}
                  \cup {[resp |-> TRUE, body |-> b] : b \in Bodies}

-----------------------------------------------------------------------------
(* fetch_comments_lightweight *)

PassesGateNoScore(score, body, min_score) ==
    ~(Len(body) < MinBodyLen \/ body \in Placeholders)

\* line 342, negated: the comment is not skipped
PassesGate(score, body, min_score) ==
    ~(score < min_score \/ Len(body) < MinBodyLen \/ body \in Placeholders)

\* lines 344-347, negated: the comment is not skipped
PassesKeywords(body, post_title, query) ==
    LET query_keywords == QueryKeywords(query)
        combined_text == StrLower(body) \o <<" ">> \o StrLower(post_title)
    IN ~( /\ query_keywords # <<>>
          /\ ~AnyKeywordIn(query_keywords, combined_text)
          /\ ~IsSubstring(StrLower(query), combined_text) )

\* the replies of every emitted comment are descended into
DescendsAlways(depth) == TRUE

\* line 354: the replies of an emitted comment are descended into
Descends(depth) == depth < MaxReplyDepth

\* extract_comments(comment_list, depth): the records it appends to results
RECURSIVE ExtractComments(_, _, _, _, _)
ExtractComments(comment_list, depth, min_score, query, post_title) ==
    IF comment_list = <<>> THEN <<>>
    ELSE
      LET comment == Head(comment_list)
          rest == ExtractComments(Tail(comment_list), depth, min_score, query,
                                  post_title)
          body == StrStrip(comment.body)
      IN IF comment.kind # "t1" THEN rest
         ELSE IF ~PassesGate(comment.score, body, min_score) THEN rest
         ELSE IF ~PassesKeywords(body, post_title, query) THEN rest
         ELSE <<[id |-> comment.id, text |-> body, score |-> comment.score,
                 post_title |-> post_title]>>
              \o (IF Descends(depth)
                  THEN ExtractComments(comment.replies, depth + 1, min_score,
                                       query, post_title)
                  ELSE <<>>)
              \o rest

\* the posts of the run: three of few comments each, or three of many
PostCounts == {<<4, 4, 4>>, <<20, 20, 20>>}

CfInit ==
    /\ cf_pc = "calling"
    /\ cf_attempt = 0
    /\ cf_min_score \in MinScores
    /\ cf_query \in Queries
    /\ cf_data = NoData
    /\ cf_results = <<>>
    /\ cf_post_counts \in PostCounts

\* one turn of "for attempt in range(len(self.account_sessions))", and the
\* return [] of line 364 when it was the last. got is what _safe_get returns
\* for the account of this turn, (account_idx + attempt) % len(account_sessions)
CommentAttempt(got) ==
    /\ cf_pc = "calling"
    /\ cf_attempt < NumAccounts
    /\ IF ~got.resp \/ got.body.shape = "not_json"
       THEN \* resp is None, or resp.json() raised: try the next account
            /\ cf_attempt' = cf_attempt + 1
            /\ cf_pc' = IF cf_attempt + 1 = NumAccounts THEN "returned" ELSE "calling"
            /\ UNCHANGED <<cf_data, cf_results>>
       ELSE /\ cf_data' = got.body
            /\ UNCHANGED cf_attempt
            /\ CASE got.body.shape = "short" ->
                      \* len(data) <= 1: comments_data = []
                      /\ cf_results' = <<>>
                      /\ cf_pc' = "returned"
                 [] got.body.shape = "no_listing" ->
                      \* data[1]['data']['children'] raises, outside any try
                      /\ cf_results' = <<>>
                      /\ cf_pc' = "raised"
                 [] OTHER ->
                      /\ cf_results' = ExtractComments(got.body.children, 0,
                                            cf_min_score, cf_query, got.body.title)
                      /\ cf_pc' = "returned"
    /\ UNCHANGED <<cf_min_score, cf_query, cf_post_counts>>
    /\ CfOnly

CfNext ==
    /\ cf_pc = "calling"
    /\ \E got \in SafeGetResults : CommentAttempt(got)
    /\ UNCHANGED cf_tried

-----------------------------------------------------------------------------
(* The retry loops of fetch_posts_batch and fetch_comments_lightweight over *)
(* the accounts, by what _safe_get met on each                             *)

\* what a call of _safe_get met: no answer (no token in time, a cooldown, a
\* failed exchange, a network error), a 429, a server error, an ok answer,
\* an ok answer whose headers show the quota exhausted
NoneAnswers == {"none", "429", "5xx"}
RespAnswers == {"ok", "ok_exhausted"}

\* lines 241-255: _safe_get returns the response, not None
ReturnsResponse(answer) == answer \notin {"none", "429", "5xx", "4xx"}

\* the comment listing of a thread with one comment
OneCommentListing ==
    [shape |-> "listing", title |-> TitleKeyword, children |-> <<LeafNode>>]

RetryBodies ==
    { [shape |-> sh, title |-> <<>>, children |-> <<>>] :
          sh \in {"not_json", "short", "no_listing"} }
    \cup {OneCommentListing}

RetryCommentResults ==
    {[resp |-> ReturnsResponse(a), body |-> NoData, answer |-> a] : a \in NoneAnswers}
    \cup {[resp |-> ReturnsResponse(a), body |-> b, answer |-> a] :
              b \in RetryBodies, a \in RespAnswers}

\* the account of a turn of the loop of fetch_comments_lightweight without
\* the attempt
AttemptAccountSame(account_idx, attempt) == account_idx % NumAccounts

\* line 315
AttemptAccount(account_idx, attempt) == (account_idx + attempt) % NumAccounts

CfRetryInit ==
    /\ cf_pc = "calling"
    /\ cf_attempt = 0
    /\ cf_min_score = DefaultMinScore
    /\ cf_query \in {QueryPhrase}
    /\ cf_data = NoData
    /\ cf_results = <<>>
    /\ cf_post_counts \in {<<20, 20, 20>>}
    /\ cf_account_idx \in 0 .. (NumAccounts - 1)
    /\ cf_tried = <<>>

\* one turn of the loop of fetch_comments_lightweight, the account and the
\* answer kept for the record
CommentAttemptNoted(got) ==
    /\ cf_pc = "calling"
    /\ CommentAttempt(got)
    /\ cf_tried' = Append(cf_tried,
           [acc |-> AttemptAccount(cf_account_idx, cf_attempt),
            answer |-> got.answer, shape |-> got.body.shape])

\* posts of a search response: a self post with the keyword; a link post
\* with a short title; a self-less post with a long title and no keyword;
\* a video; an image; a self post whose text ends with the phrase "tv 4k"
TitleLong == BodyTen \o <<" ">> \o BodyTen
PostSamples ==
    { [title |-> TitleKeyword, selftext |-> BodyKeyword, is_video |-> FALSE, post_hint |-> "self"],
      [title |-> TitleKeyword, selftext |-> <<" ">>, is_video |-> FALSE, post_hint |-> "link"],
      [title |-> TitleLong, selftext |-> <<>>, is_video |-> FALSE, post_hint |-> "link"],
      [title |-> TitleLong, selftext |-> BodyKeyword, is_video |-> TRUE, post_hint |-> "hosted:video"],
      [title |-> TitleLong, selftext |-> BodyKeyword, is_video |-> FALSE, post_hint |-> "image"],
      [title |-> TitleLong, selftext |-> BodyTen \o <<" ">> \o QueryShortWords,
       is_video |-> FALSE, post_hint |-> "self"] }

\* the body of a search response: not JSON; JSON without 'data'; a listing
PostBodies ==
    { [shape |-> sh, posts |-> <<>>] : sh \in {"not_json", "no_data"} }
    \cup { [shape |-> "listing", posts |-> ps] :
              ps \in {<<>>} \cup {<<p>> : p \in PostSamples} }

NoPostData == [shape |-> "none", posts |-> <<>>]

RetryPostResults ==
    {[resp |-> ReturnsResponse(a), body |-> NoPostData, answer |-> a] : a \in NoneAnswers}
    \cup {[resp |-> ReturnsResponse(a), body |-> b, answer |-> a] :
              b \in PostBodies, a \in RespAnswers}

\* max_attempts (line 272)
MaxAttempts == NumAccounts * AttemptsPerAccount

\* the same account again
NextAccountSame(account_idx) == account_idx % NumAccounts

\* lines 280 and 301
NextAccount(account_idx) == (account_idx + 1) % NumAccounts

\* query_keywords of fetch_posts_batch (line 288)
PostQueryKeywords(query) == LongWords(StrSplit(StrLower(query)))

MediaHints == {"image", "hosted:video", "rich:video"}

\* lines 291-294: the post is skipped before its text is looked at
PostSkipped(p) ==
    \/ p.is_video \/ p.post_hint \in MediaHints
    \/ (StrStrip(p.selftext) = <<>> /\ Len(p.title) < MinTitleLen)

\* lines 295-296
PostPassesKeywords(title, selftext, query) ==
    LET combined == StrLower(title) \o <<" ">> \o StrLower(selftext)
    IN AnyKeywordIn(PostQueryKeywords(query), combined)

\* lines 287-298: text_posts
RECURSIVE TextPosts(_, _)
TextPosts(posts, query) ==
    IF posts = <<>> THEN <<>>
    ELSE (IF /\ ~PostSkipped(Head(posts))
             /\ PostPassesKeywords(Head(posts).title, Head(posts).selftext, query)
          THEN <<Head(posts)>> ELSE <<>>) \o TextPosts(Tail(posts), query)

PbInit ==
    /\ pb_pc = "calling"
    /\ pb_query \in Queries
    /\ pb_account_idx \in 0 .. (NumAccounts - 1)
    /\ pb_attempts = 0
    /\ pb_tried = <<>>
    /\ pb_posts = <<>>
    /\ pb_result = <<>>

\* one turn of "while attempts < max_attempts" of fetch_posts_batch, and the
\* raise of line 305 when it was the last
PostsAttempt(got) ==
    /\ pb_pc = "calling"
    /\ pb_attempts < MaxAttempts
    /\ pb_attempts' = pb_attempts + 1
    /\ pb_tried' = Append(pb_tried,
           [acc |-> pb_account_idx % NumAccounts,
            answer |-> got.answer, shape |-> got.body.shape])
    /\ IF ~got.resp \/ got.body.shape = "not_json"
       THEN \* resp is None, or resp.json() raised: the next account
            /\ pb_account_idx' = NextAccount(pb_account_idx)
            /\ pb_pc' = IF pb_attempts + 1 < MaxAttempts THEN "calling" ELSE "raised"
            /\ UNCHANGED <<pb_posts, pb_result>>
       ELSE /\ pb_posts' = got.body.posts
            /\ pb_result' = TextPosts(got.body.posts, pb_query)
            /\ pb_pc' = "returned"
            /\ UNCHANGED pb_account_idx
    /\ UNCHANGED pb_query
    /\ PbOnly

RetryNext ==
    \/ \E got \in RetryCommentResults : CommentAttemptNoted(got)
    \/ \E got \in RetryPostResults : PostsAttempt(got)

-----------------------------------------------------------------------------
(* TokenBucket, AccountSession and _safe_get: worker threads share an       *)
(* account session.  Times are in clock ticks, token counts in units of    *)
(* which OneToken make one token, so that the refill of one tick is whole. *)

\* two worker threads of the pool call _safe_get on the same session
Workers == {1, 2}
Sessions == {0}
AccountOf(w) == th_acc[w]

Secs(s) == s * TicksPerSecond
OneToken == 60 * TicksPerSecond
RefillPerTick == MAX_REQUESTS_PER_MINUTE_PER_ACCOUNT
Capacity == Max2(BurstCapacity, 1) * OneToken

\* a bearer token is known by the time of its exchange and the expires_in
\* the upstream gave it; NoToken is None
NoToken == [issued |-> 0 - 1, expires_in |-> 0]
Token(t, e) == [issued |-> t, expires_in |-> e]
\* the time the upstream stops honouring the token
UpstreamExpiry(tok) == tok.issued + Secs(tok.expires_in)

\* random.uniform(0.5, 3.0), random.random()*3 and random.random()*0.5:
\* the ends of each range on the clock of the model
QuotaJitters == {(TicksPerSecond + 1) \div 2, Secs(QuotaJitterMaxSeconds)}
Backoffs == {Secs(BackoffBaseSeconds),
             Secs(BackoffBaseSeconds) + Secs(BackoffSpreadSeconds) - 1}
AuthBackoffs == {Secs(AuthBackoffBaseSeconds),
                 Secs(AuthBackoffBaseSeconds) + Secs(AuthBackoffSpreadSeconds) - 1}
InitialDelays == {0, (TicksPerSecond + 1) \div 2}
\* now + 0.1 compares with a whole tick as now + 1 does
AuthSpacing == (TicksPerSecond + 9) \div 10

\* no GET answered yet
NoAnswer == [status |-> 0, exhausted |-> FALSE, reset |-> 0]

\* what the servers can answer
ResetHints == {Secs(1)}
Responses ==
    [status : {200, 404, 429, 500}, exhausted : BOOLEAN, reset : ResetHints]
NetworkError == [status |-> 0, exhausted |-> FALSE, reset |-> 0]
GetOutcomes == Responses \cup {NetworkError}
AuthOutcomes == {"ok", "not_ok", "exception"}

\* TokenBucket.consume, line 47
RefillUncapped(held, elapsed) == held + elapsed * RefillPerTick
Refill(held, elapsed) == Min2(Capacity, held + elapsed * RefillPerTick)

RateInit ==
    /\ now = 0
    /\ tokens = [a \in Sessions |-> Capacity]
    /\ last = [a \in Sessions |-> 0]
    /\ rate_limited_until = [a \in Sessions |-> 0]
    /\ access_token = [a \in Sessions |-> NoToken]
    /\ token_expires_at = [a \in Sessions |-> 0]
    /\ next_available \in [Sessions -> InitialDelays]
    /\ lock = [a \in Sessions |-> 0]
    /\ th_pc = [w \in Workers |-> "idle"]
    /\ th_start = [w \in Workers |-> 0]
    /\ th_acc = [w \in Workers |-> 0]
    /\ th_token = [w \in Workers |-> NoToken]
    /\ th_owed = [w \in Workers |-> NoToken]
    /\ rejected = [a \in Sessions |-> FALSE]
    /\ answered = [a \in Sessions |-> NoAnswer]
    /\ gets_done = [a \in Sessions |-> 0]
    /\ limited_by = [a \in Sessions |-> "other"]
    /\ refill_capped = FALSE
    /\ blocked_in_cooldown = FALSE
    /\ returned_failed = FALSE

\* time passes
Tick(limit) ==
    /\ now < limit
    /\ now' = now + 1
    /\ UNCHANGED <<tokens, last, rate_limited_until, access_token,
                   token_expires_at, next_available, lock, th_pc, th_start,
                   limited_by, refill_capped, blocked_in_cooldown>>
    /\ UNCHANGED <<th_acc, th_token, th_owed, rejected>>
    /\ RateOnly

\* a worker calls _safe_get and enters wait_for_token
StartCall(w) ==
    /\ th_pc[w] = "idle"
    /\ th_pc' = [th_pc EXCEPT ![w] = "wait"]
    /\ th_start' = [th_start EXCEPT ![w] = now]
    /\ UNCHANGED <<now, tokens, last, rate_limited_until, access_token,
                   token_expires_at, next_available, lock,
                   limited_by, refill_capped, blocked_in_cooldown>>
    /\ UNCHANGED <<th_acc, th_token, th_owed, rejected>>
    /\ RateOnly

\* consume without line 49
DeductedNothing(held) == held

\* TokenBucket.consume, line 49
Deducted(held) == held - OneToken

\* timeout=None
NoTimeout == 0 - 1

\* line 61 with >= for >
TimedOutAtTimeout(waited, timeout) == timeout # NoTimeout /\ waited >= timeout

\* wait_for_token, line 61
TimedOut(waited, timeout) == timeout # NoTimeout /\ waited > timeout

\* one round of the loop of wait_for_token: consume under the lock of the
\* bucket, then the test of the timeout
WaitForTokenRound(w, timeout) ==
    /\ th_pc[w] = "wait"
    /\ LET a == AccountOf(w)
           elapsed == now - last[a]
           held == Refill(tokens[a], elapsed)
           timed_out == TimedOut(now - th_start[w], timeout)
       IN  /\ last' = [last EXCEPT ![a] = now]
           /\ refill_capped' =
                  (refill_capped \/ tokens[a] + elapsed * RefillPerTick > Capacity)
           /\ IF held >= OneToken
              THEN /\ tokens' = [tokens EXCEPT ![a] = Deducted(held)]
                   /\ th_pc' = [th_pc EXCEPT ![w] = "check"]
                   /\ th_start' = [th_start EXCEPT ![w] = 0]
              ELSE /\ tokens' = [tokens EXCEPT ![a] = held]
                   /\ th_pc' = [th_pc EXCEPT ![w] =
                          IF timed_out THEN "idle" ELSE "wait"]
                   /\ th_start' = [th_start EXCEPT ![w] =
                          IF timed_out THEN 0 ELSE @]
    /\ UNCHANGED <<now, rate_limited_until, access_token, token_expires_at,
                   next_available, lock, limited_by, blocked_in_cooldown>>
    /\ UNCHANGED <<th_acc, th_token, th_owed, rejected>>
    /\ RateOnly

\* line 192: wait_for_token(timeout=3)
TryConsume(w) == WaitForTokenRound(w, Secs(WaitTimeoutSeconds))

\* lines 197-199 without the test
CheckCooldownIgnored(w) ==
    /\ th_pc[w] = "check"
    /\ th_pc' = [th_pc EXCEPT ![w] = "auth"]
    /\ UNCHANGED <<now, tokens, last, rate_limited_until, access_token,
                   token_expires_at, next_available, lock, th_start,
                   limited_by, refill_capped, blocked_in_cooldown>>
    /\ UNCHANGED <<th_acc, th_token, th_owed, rejected>>
    /\ RateOnly

\* lines 197-199
CheckCooldown(w) ==
    /\ th_pc[w] = "check"
    /\ LET a == AccountOf(w)
       IN  IF rate_limited_until[a] > now
           THEN /\ th_pc' = [th_pc EXCEPT ![w] = "idle"]
                /\ blocked_in_cooldown' =
                       (blocked_in_cooldown \/ limited_by[a] \in {"429", "quota"})
           ELSE /\ th_pc' = [th_pc EXCEPT ![w] = "auth"]
                /\ UNCHANGED blocked_in_cooldown
    /\ UNCHANGED <<now, tokens, last, rate_limited_until, access_token,
                   token_expires_at, next_available, lock, th_start,
                   limited_by, refill_capped>>
    /\ UNCHANGED <<th_acc, th_token, th_owed, rejected>>
    /\ RateOnly

\* the test of line 141 on the cached token
CachedTokenValid(a) ==
    /\ access_token[a] # NoToken
    /\ now < token_expires_at[a] - Secs(TokenBufferSeconds)

\* _authenticate_account without the lock of the session
AuthEnterNoLock(w) ==
    /\ th_pc[w] = "auth"
    /\ LET a == AccountOf(w)
       IN  IF CachedTokenValid(a)
           THEN /\ th_pc' = [th_pc EXCEPT ![w] = "get"]
                /\ th_token' = [th_token EXCEPT ![w] = access_token[a]]
           ELSE /\ th_pc' = [th_pc EXCEPT ![w] = "throttle"]
                /\ UNCHANGED th_token
    /\ UNCHANGED <<now, tokens, last, rate_limited_until, access_token,
                   token_expires_at, next_available, th_start, lock,
                   th_acc, th_owed, rejected,
                   limited_by, refill_capped, blocked_in_cooldown>>
    /\ RateOnly

\* _authenticate_account without the cache
AuthEnterNoCache(w) ==
    /\ th_pc[w] = "auth"
    /\ lock[AccountOf(w)] = 0
    /\ th_pc' = [th_pc EXCEPT ![w] = "throttle"]
    /\ lock' = [lock EXCEPT ![AccountOf(w)] = w]
    /\ UNCHANGED <<now, tokens, last, rate_limited_until, access_token,
                   token_expires_at, next_available, th_start,
                   th_acc, th_token, th_owed, rejected,
                   limited_by, refill_capped, blocked_in_cooldown>>
    /\ RateOnly

\* _authenticate_account takes the lock of the session: a cached token is
\* returned at once, otherwise the lock is kept for the exchange
AuthEnter(w) ==
    /\ th_pc[w] = "auth"
    /\ LET a == AccountOf(w)
       IN  /\ lock[a] = 0
           /\ IF CachedTokenValid(a)
              THEN /\ th_pc' = [th_pc EXCEPT ![w] = "get"]
                   /\ th_token' = [th_token EXCEPT ![w] = access_token[a]]
                   /\ UNCHANGED lock
              ELSE /\ th_pc' = [th_pc EXCEPT ![w] = "throttle"]
                   /\ lock' = [lock EXCEPT ![a] = w]
                   /\ UNCHANGED th_token
    /\ UNCHANGED <<now, tokens, last, rate_limited_until, access_token,
                   token_expires_at, next_available, th_start,
                   th_acc, th_owed, rejected,
                   limited_by, refill_capped, blocked_in_cooldown>>
    /\ RateOnly

\* lines 145-161: the sleep until next_available, then the POST is sent
AuthPost(w) ==
    /\ th_pc[w] = "throttle"
    /\ now >= next_available[AccountOf(w)]
    /\ th_pc' = [th_pc EXCEPT ![w] = "posting"]
    /\ UNCHANGED <<now, tokens, last, rate_limited_until, access_token,
                   token_expires_at, next_available, lock, th_start,
                   limited_by, refill_capped, blocked_in_cooldown>>
    /\ UNCHANGED <<th_acc, th_token, th_owed, rejected>>
    /\ RateOnly

\* the threads that wait for the lock of session a while w holds it
WaitingFor(a, w) ==
    {v \in DOMAIN th_pc : v # w /\ th_pc[v] = "auth" /\ th_acc[v] = a}

\* lines 161-174 and the handler of lines 203-207
PostDone(w, outcome, backoff, expires_in) ==
    /\ LET a == AccountOf(w)
       IN  /\ lock' = [lock EXCEPT ![a] = 0]
           /\ IF outcome = "ok"
              THEN /\ access_token' = [access_token EXCEPT ![a] = Token(now, expires_in)]
                   /\ token_expires_at' = [token_expires_at EXCEPT ![a] =
                          now + Secs(expires_in) - Secs(TokenBufferSeconds)]
                   /\ next_available' = [next_available EXCEPT ![a] = now + AuthSpacing]
                   /\ th_pc' = [th_pc EXCEPT ![w] = "get"]
                   /\ th_token' = [th_token EXCEPT ![w] = Token(now, expires_in)]
                   /\ th_owed' = [v \in DOMAIN th_owed |->
                          IF v \in WaitingFor(a, w) THEN Token(now, expires_in)
                          ELSE th_owed[v]]
                   /\ UNCHANGED <<rate_limited_until, limited_by, rejected>>
              ELSE /\ next_available' =
                          IF outcome = "not_ok"
                          THEN [next_available EXCEPT ![a] = now + backoff]
                          ELSE next_available
                   /\ rejected' = [rejected EXCEPT ![a] = @ \/ outcome = "not_ok"]
                   /\ rate_limited_until' = [rate_limited_until EXCEPT ![a] =
                          now + Secs(AuthErrorCooldownSeconds)]
                   /\ limited_by' = [limited_by EXCEPT ![a] = "other"]
                   /\ th_pc' = [th_pc EXCEPT ![w] = "idle"]
                   /\ th_owed' = [th_owed EXCEPT ![w] = NoToken]
                   /\ UNCHANGED <<access_token, token_expires_at, th_token>>
    /\ UNCHANGED <<now, tokens, last, th_start, th_acc, refill_capped,
                   blocked_in_cooldown>>
    /\ RateOnly

\* lines 215-255 without the test of resp.ok
SafeGetReturnNotOk(resp) ==
    IF resp = NetworkError \/ resp.status = 429 \/ resp.status >= 500
    THEN {} ELSE {resp}

\* lines 215-255: what _safe_get returns once the GET is over, the empty set
\* for None and otherwise the response
SafeGetReturn(resp) ==
    IF \/ resp = NetworkError
       \/ resp.status = 429
       \/ resp.status >= 500
       \/ resp.status >= 400
    THEN {} ELSE {resp}

\* lines 213-255: the answer to the GET, its headers, then its status
GetDone(w, resp, jitter, backoff) ==
    /\ LET a == AccountOf(w)
           by_header == IF resp.exhausted
                        THEN now + resp.reset + jitter
                        ELSE rate_limited_until[a]
       IN  IF resp = NetworkError
           THEN /\ rate_limited_until' = [rate_limited_until EXCEPT ![a] =
                       now + Secs(NetworkErrorCooldownSeconds)]
                /\ limited_by' = [limited_by EXCEPT ![a] = "other"]
           ELSE /\ rate_limited_until' = [rate_limited_until EXCEPT ![a] =
                       IF resp.status = 429 \/ resp.status >= 500
                       THEN now + backoff ELSE by_header]
                /\ limited_by' = [limited_by EXCEPT ![a] =
                       IF resp.status = 429 THEN "429"
                       ELSE IF resp.status >= 500 THEN "other"
                       ELSE IF resp.exhausted THEN "quota"
                       ELSE limited_by[a]]
    /\ returned_failed' =
           (returned_failed \/ \E r \in SafeGetReturn(resp) : r.status >= 400)
    /\ th_pc' = [th_pc EXCEPT ![w] = "idle"]
    /\ th_token' = [th_token EXCEPT ![w] = NoToken]
    /\ th_owed' = [th_owed EXCEPT ![w] = NoToken]
    /\ UNCHANGED <<now, tokens, last, access_token, token_expires_at,
                   next_available, lock, th_start, th_acc, rejected,
                   refill_capped, blocked_in_cooldown>>
    /\ UNCHANGED <<orchVars, cfVars, relVars, retryVars, fastVars>>

PostAnswered(w, lifetimes) ==
    /\ th_pc[w] = "posting"
    /\ \E outcome \in AuthOutcomes, backoff \in AuthBackoffs, e \in lifetimes :
           /\ (outcome # "not_ok" => backoff = Secs(AuthBackoffBaseSeconds))
           /\ (outcome # "ok" => e = DefaultExpiresIn)
           /\ PostDone(w, outcome, backoff, e)

GetAnswered(w, outcomes) ==
    /\ th_pc[w] = "get"
    /\ \E resp \in outcomes, jitter \in QuotaJitters, backoff \in Backoffs :
           /\ (~resp.exhausted => jitter = Secs(QuotaJitterMaxSeconds))
           /\ (~(resp.status = 429 \/ resp.status >= 500)
                  => backoff = Secs(BackoffBaseSeconds))
           /\ GetDone(w, resp, jitter, backoff)
    /\ UNCHANGED <<answered, gets_done>>

RateNext ==
    \/ Tick(MaxTime)
    \/ \E w \in Workers : StartCall(w)
    \/ \E w \in Workers : TryConsume(w)
    \/ \E w \in Workers : CheckCooldown(w)
    \/ \E w \in Workers : AuthEnter(w)
    \/ \E w \in Workers : AuthPost(w)
    \/ \E w \in Workers : PostAnswered(w, {DefaultExpiresIn})
    \/ \E w \in Workers : GetAnswered(w, GetOutcomes)

-----------------------------------------------------------------------------
(* _authenticate_account under _safe_get: two worker threads on two         *)
(* account sessions, each call past wait_for_token                         *)

AuthWorkers == {1, 2}
AuthSessions == {0, 1}
\* acc_idx = (account_idx + attempt) % len(self.account_sessions): the two
\* threads call on the same session or on one session each
AccIndexes == {[w \in AuthWorkers |-> 0], [w \in AuthWorkers |-> w - 1]}
\* the GET of these calls is answered 200 with quota left
PlainAnswer == [status |-> 200, exhausted |-> FALSE, reset |-> Secs(1)]
\* the expires_in of the upstream: the usual one and one under the buffer
ExpiresIns == {DefaultExpiresIn, ShortExpiresIn}

AuthInit ==
    /\ now = 0
    /\ tokens = [a \in AuthSessions |-> Capacity]
    /\ last = [a \in AuthSessions |-> 0]
    /\ rate_limited_until = [a \in AuthSessions |-> 0]
    /\ access_token = [a \in AuthSessions |-> NoToken]
    /\ token_expires_at = [a \in AuthSessions |-> 0]
    /\ next_available = [a \in AuthSessions |-> 0]
    /\ lock = [a \in AuthSessions |-> 0]
    /\ th_pc = [w \in AuthWorkers |-> "idle"]
    /\ th_start = [w \in AuthWorkers |-> 0]
    /\ th_acc \in AccIndexes
    /\ th_token = [w \in AuthWorkers |-> NoToken]
    /\ th_owed = [w \in AuthWorkers |-> NoToken]
    /\ rejected = [a \in AuthSessions |-> FALSE]
    /\ answered = [a \in AuthSessions |-> NoAnswer]
    /\ gets_done = [a \in AuthSessions |-> 0]
    /\ limited_by = [a \in AuthSessions |-> "other"]
    /\ refill_capped = FALSE
    /\ blocked_in_cooldown = FALSE
    /\ returned_failed = FALSE

\* lines 190-194 when wait_for_token grants a token at once
TokenGranted(w) ==
    /\ th_pc[w] = "idle"
    /\ th_pc' = [th_pc EXCEPT ![w] = "check"]
    /\ UNCHANGED <<now, tokens, last, rate_limited_until, access_token,
                   token_expires_at, next_available, lock, th_start,
                   th_acc, th_token, th_owed, rejected,
                   limited_by, refill_capped, blocked_in_cooldown>>
    /\ RateOnly

AuthNext ==
    \/ Tick(MaxAuthTime)
    \/ \E w \in AuthWorkers : TokenGranted(w)
    \/ \E w \in AuthWorkers : CheckCooldown(w)
    \/ \E w \in AuthWorkers : AuthEnter(w)
    \/ \E w \in AuthWorkers : AuthPost(w)
    \/ \E w \in AuthWorkers : PostAnswered(w, ExpiresIns)
    \/ \E w \in AuthWorkers : GetAnswered(w, {PlainAnswer})

-----------------------------------------------------------------------------
(* _safe_get from the cooldown test on: one thread with a cached token, the *)
(* upstream answering with short and long reset hints                      *)

CooldownWorkers == {1}
\* x-ratelimit-reset: a second, or a minute
WideResetHints == {Secs(1), Secs(60)}
HintedOutcomes ==
    [status : {200, 404, 429, 500}, exhausted : BOOLEAN, reset : WideResetHints]
    \cup {NetworkError}

CooldownInit ==
    /\ now = 0
    /\ tokens = [a \in Sessions |-> Capacity]
    /\ last = [a \in Sessions |-> 0]
    /\ rate_limited_until = [a \in Sessions |-> 0]
    /\ access_token = [a \in Sessions |-> Token(0, DefaultExpiresIn)]
    /\ token_expires_at = [a \in Sessions |->
           Secs(DefaultExpiresIn) - Secs(TokenBufferSeconds)]
    /\ next_available = [a \in Sessions |-> AuthSpacing]
    /\ lock = [a \in Sessions |-> 0]
    /\ th_pc = [w \in CooldownWorkers |-> "idle"]
    /\ th_start = [w \in CooldownWorkers |-> 0]
    /\ th_acc = [w \in CooldownWorkers |-> 0]
    /\ th_token = [w \in CooldownWorkers |-> NoToken]
    /\ th_owed = [w \in CooldownWorkers |-> NoToken]
    /\ rejected = [a \in Sessions |-> FALSE]
    /\ answered = [a \in Sessions |-> NoAnswer]
    /\ gets_done = [a \in Sessions |-> 0]
    /\ limited_by = [a \in Sessions |-> "other"]
    /\ refill_capped = FALSE
    /\ blocked_in_cooldown = FALSE
    /\ returned_failed = FALSE

\* lines 213-255, the answer kept for the record
GetNoted(w, outcomes) ==
    /\ th_pc[w] = "get"
    /\ \E resp \in outcomes, jitter \in QuotaJitters, backoff \in Backoffs :
           /\ (~resp.exhausted => jitter = Secs(QuotaJitterMaxSeconds))
           /\ (~(resp.status = 429 \/ resp.status >= 500)
                  => backoff = Secs(BackoffBaseSeconds))
           /\ GetDone(w, resp, jitter, backoff)
           /\ answered' = [answered EXCEPT ![AccountOf(w)] = resp]
    /\ UNCHANGED gets_done

CooldownNext ==
    \/ Tick(MaxTime)
    \/ \E w \in CooldownWorkers : TokenGranted(w)
    \/ \E w \in CooldownWorkers : CheckCooldown(w)
    \/ \E w \in CooldownWorkers : AuthEnter(w)
    \/ \E w \in CooldownWorkers : GetNoted(w, HintedOutcomes)

-----------------------------------------------------------------------------
(* The GETs of _safe_get against the bucket: two worker threads on one     *)
(* account session whose token is cached, every GET counted                *)

\* a 200 with quota left, and a 429
BucketOutcomes ==
    {PlainAnswer, [status |-> 429, exhausted |-> FALSE, reset |-> Secs(1)]}

BucketInit ==
    /\ now = 0
    /\ tokens = [a \in Sessions |-> Capacity]
    /\ last = [a \in Sessions |-> 0]
    /\ rate_limited_until = [a \in Sessions |-> 0]
    /\ access_token = [a \in Sessions |-> Token(0, DefaultExpiresIn)]
    /\ token_expires_at = [a \in Sessions |->
           Secs(DefaultExpiresIn) - Secs(TokenBufferSeconds)]
    /\ next_available = [a \in Sessions |-> AuthSpacing]
    /\ lock = [a \in Sessions |-> 0]
    /\ th_pc = [w \in Workers |-> "idle"]
    /\ th_start = [w \in Workers |-> 0]
    /\ th_acc = [w \in Workers |-> 0]
    /\ th_token = [w \in Workers |-> NoToken]
    /\ th_owed = [w \in Workers |-> NoToken]
    /\ rejected = [a \in Sessions |-> FALSE]
    /\ answered = [a \in Sessions |-> NoAnswer]
    /\ gets_done = [a \in Sessions |-> 0]
    /\ limited_by = [a \in Sessions |-> "other"]
    /\ refill_capped = FALSE
    /\ blocked_in_cooldown = FALSE
    /\ returned_failed = FALSE

\* lines 213-255, the GET counted
GetCounted(w, outcomes) ==
    /\ th_pc[w] = "get"
    /\ \E resp \in outcomes, jitter \in QuotaJitters, backoff \in Backoffs :
           /\ (~resp.exhausted => jitter = Secs(QuotaJitterMaxSeconds))
           /\ (~(resp.status = 429 \/ resp.status >= 500)
                  => backoff = Secs(BackoffBaseSeconds))
           /\ GetDone(w, resp, jitter, backoff)
    /\ gets_done' = [gets_done EXCEPT ![AccountOf(w)] = @ + 1]
    /\ UNCHANGED answered

BucketNext ==
    \/ Tick(MaxTime)
    \/ \E w \in Workers : StartCall(w)
    \/ \E w \in Workers : TryConsume(w)
    \/ \E w \in Workers : CheckCooldown(w)
    \/ \E w \in Workers : AuthEnter(w)
    \/ \E w \in Workers : GetCounted(w, BucketOutcomes)

-----------------------------------------------------------------------------
(* TokenBucket.wait_for_token on its own: three threads call it on one     *)
(* bucket, again and again, two of them without a timeout.  The clock is   *)
(* read relative to the present: when time passes, now stays and the       *)
(* readings kept in _last and start grow one tick older; an age is not     *)
(* counted beyond the point where consume and the timeout test stop        *)
(* telling it apart.                                                       *)

WaitWorkers == {1, 2, 3}

\* the argument timeout of the calls of each thread
TimeoutOf(w) == IF w = 3 THEN Secs(WaitTimeoutSeconds) ELSE NoTimeout

\* the ticks after which line 47 gives a full bucket whatever it held
FillTicks == (Capacity + RefillPerTick - 1) \div RefillPerTick

\* every thread is in wait_for_token, its start just read (line 57)
WaitInit ==
    /\ now = 0
    /\ tokens = [a \in Sessions |-> Capacity]
    /\ last = [a \in Sessions |-> 0]
    /\ rate_limited_until = [a \in Sessions |-> 0]
    /\ access_token = [a \in Sessions |-> NoToken]
    /\ token_expires_at = [a \in Sessions |-> 0]
    /\ next_available = [a \in Sessions |-> 0]
    /\ lock = [a \in Sessions |-> 0]
    /\ th_pc = [w \in WaitWorkers |-> "wait"]
    /\ th_start = [w \in WaitWorkers |-> 0]
    /\ th_acc = [w \in WaitWorkers |-> 0]
    /\ th_token = [w \in WaitWorkers |-> NoToken]
    /\ th_owed = [w \in WaitWorkers |-> NoToken]
    /\ rejected = [a \in Sessions |-> FALSE]
    /\ answered = [a \in Sessions |-> NoAnswer]
    /\ gets_done = [a \in Sessions |-> 0]
    /\ limited_by = [a \in Sessions |-> "other"]
    /\ refill_capped = FALSE
    /\ blocked_in_cooldown = FALSE
    /\ returned_failed = FALSE

\* time.sleep, line 64, and any other passing of time: a tick
Elapse ==
    /\ last' = [a \in DOMAIN last |-> Max2(last[a] - 1, now - FillTicks)]
    /\ th_start' = [w \in DOMAIN th_start |->
           IF th_pc[w] = "wait"
           THEN Max2(th_start[w] - 1, now - Secs(WaitTimeoutSeconds) - 1)
           ELSE th_start[w]]
    /\ UNCHANGED <<now, tokens, rate_limited_until, access_token,
                   token_expires_at, next_available, lock, th_pc,
                   limited_by, refill_capped, blocked_in_cooldown>>
    /\ UNCHANGED <<th_acc, th_token, th_owed, rejected>>
    /\ RateOnly

\* lines 58-64: one round of the loop
WaitRound(w) == WaitForTokenRound(w, TimeoutOf(w))

\* the round in which consume() is True (lines 59-60)
WaitTakes(w) == WaitRound(w) /\ th_pc'[w] = "check"

\* the thread is back from wait_for_token, with True ("check") or with
\* False ("idle"), and calls it again (line 57)
WaitCall(w) ==
    /\ th_pc[w] \in {"check", "idle"}
    /\ th_pc' = [th_pc EXCEPT ![w] = "wait"]
    /\ th_start' = [th_start EXCEPT ![w] = now]
    /\ UNCHANGED <<now, tokens, last, rate_limited_until, access_token,
                   token_expires_at, next_available, lock,
                   limited_by, refill_capped, blocked_in_cooldown>>
    /\ UNCHANGED <<th_acc, th_token, th_owed, rejected>>
    /\ RateOnly

WaitNext ==
    \/ Elapse
    \/ \E w \in WaitWorkers : WaitRound(w)
    \/ \E w \in WaitWorkers : WaitCall(w)

\* the clock advances; a thread in the loop makes its next round (the sleep
\* of line 64 ends); and a waiter is not overtaken at every one of its
\* rounds for ever: the sleeps are jittered at random (line 64), so of the
\* rounds that would find a token one is made before another thread's
FairWait ==
    /\ WF_vars(Elapse)
    /\ \A w \in WaitWorkers : WF_vars(WaitRound(w))
    /\ \A w \in WaitWorkers : SF_vars(WaitTakes(w))

-----------------------------------------------------------------------------
(* is_relevant (testing.py): the relevance filter, strict and relaxed *)

\* query_lower in text_lower, for a query of one term
SingleTermMatchCased(query, text) == IsSubstring(query, text)
SingleTermMatch(query, text) == IsSubstring(StrLower(query), StrLower(text))

\* all(term in text_lower for term in query_terms)
AnyTermIn(query_terms, text_lower) ==
    \E i \in DOMAIN query_terms : IsSubstring(query_terms[i], text_lower)
AllTermsIn(query_terms, text_lower) ==
    \A i \in DOMAIN query_terms : IsSubstring(query_terms[i], text_lower)

\* sum(1 for term in query_terms if term in text_lower)
TermsPresent(query_terms, text_lower) ==
    Cardinality({i \in DOMAIN query_terms : IsSubstring(query_terms[i], text_lower)})

\* max(1, len(query_terms) // 2 + 1)
RequiredTermsHalf(n) == Max2(1, n \div 2)
RequiredTerms(n) == Max2(1, n \div 2 + 1)

is_relevant(text, query, relaxed) ==
    IF text = <<>> \/ query = <<>> THEN FALSE
    ELSE LET text_lower == StrLower(text)
             query_lower == StrLower(query)
             query_terms == StrSplit(query_lower)
         IN  IF Len(query_terms) = 1 THEN SingleTermMatch(query, text)
             ELSE IF ~relaxed
                  THEN \/ IsSubstring(query_lower, text_lower)
                       \/ AllTermsIn(query_terms, text_lower)
                  ELSE \/ IsSubstring(query_lower, text_lower)
                       \/ TermsPresent(query_terms, text_lower)
                              >= RequiredTerms(Len(query_terms))

\* words of the texts and of the queries
WordIPhone == <<"i", "p", "h", "o", "n", "e">>
Word15 == <<"1", "5">>
WordPro == <<"p", "r", "o">>
WordMax == <<"M", "A", "X">>
WordPhone == <<"p", "h", "o", "n", "e">>
TextWords == {WordIPhone, Word15, WordPro, WordMax, WordPhone}

\* " ".join(ws)
RECURSIVE Join(_)
Join(ws) ==
    IF ws = <<>> THEN <<>>
    ELSE IF Len(ws) = 1 THEN ws[1]
    ELSE ws[1] \o <<" ">> \o Join(Tail(ws))

RelTexts ==
    {Join(ws) : ws \in UNION {[1 .. n -> TextWords] : n \in 0 .. MaxTextWords}}

\* the empty query, a blank one, one term bare and padded, and queries of
\* two, three and four terms, one of them with a term twice
QueryOne == <<"i", "P", "h", "o", "n", "e">>
QueryOnePadded == <<" ">> \o QueryOne \o <<" ">>
QueryThree == QueryPhrase \o <<" ", "P", "r", "o">>
QueryFour == QueryThree \o <<" ", "M", "a", "x">>
QueryTwice == QueryOne \o <<" ">> \o QueryPhrase
RelQueries ==
    {<<>>, <<" ">>, QueryOne, QueryOnePadded, QueryPhrase, QueryThree,
     QueryFour, QueryTwice}

RelInit ==
    /\ rel_pc = "called"
    /\ rel_text \in RelTexts
    /\ rel_query \in RelQueries
    /\ rel_relaxed \in BOOLEAN
    /\ rel_result = FALSE

\* the call returns
Classify ==
    /\ rel_pc = "called"
    /\ rel_result' = is_relevant(rel_text, rel_query, rel_relaxed)
    /\ rel_pc' = "returned"
    /\ UNCHANGED <<rel_text, rel_query, rel_relaxed>>
    /\ RelOnly

RelNext == Classify

-----------------------------------------------------------------------------
(* FastRedditFetcher.fetch_mass_comments (fast_reddit_fetcher.py): the     *)
(* cache in front of MultiAccountRedditFetcher.fetch_mass_comments         *)

HoursPerTick == 12

\* query.replace(' ', '_')
ReplaceSpaces(t) == [i \in DOMAIN t |-> IF t[i] = " " THEN "_" ELSE t[i]]

\* line 46: the file of a query, without the directory, the prefix
\* "reddit_cache_" and the suffix ".json" that all files share
CacheFile(query) == ReplaceSpaces(query)

\* "iPhone 15" and "iPhone_15": two queries with one cache file
QueryUnderscore == ReplaceSpaces(QueryPhrase)
FastQueries == {QueryPhrase, QueryUnderscore}
FastTargets == {1, 2}
FastMinScores == {DefaultMinScore, DefaultMinScore + 1}
CacheFiles == {CacheFile(q) : q \in FastQueries}

\* no file
NoCacheFile == [comments |-> <<>>, query |-> <<>>, mtime |-> 0 - 1]

\* what the run of MultiAccountRedditFetcher.fetch_mass_comments has in
\* comments_by_id when it finalizes: comments with distinct ids that passed
\* the gate of min_score
FastFound(min_score) ==
    LET cs == [id : Ids, score : {min_score, min_score + 1}]
    IN  {<<>>} \cup {<<c>> : c \in cs}
        \cup {<<c, d>> : c \in {x \in cs : x.id = 1}, d \in {x \in cs : x.id = 2}}

\* lines 435-437 of reddit_fetcher.py: 'comments' of the stats returned
FetchedComments(found, target) == PySlicePrefix(SortDesc(found, "score"), target)

\* _is_cache_valid, lines 25-35
IsCacheValid(file) ==
    /\ fc_cache[file] # NoCacheFile
    /\ (fc_clock - fc_cache[file].mtime) * HoursPerTick < CACHE_EXPIRY_HOURS

FastInit ==
    /\ fc_pc = "idle"
    /\ fc_query = <<>>
    /\ fc_target = 0
    /\ fc_min_score = 0
    /\ fc_result = <<>>
    /\ fc_cached = FALSE
    /\ fc_cache = [f \in CacheFiles |-> NoCacheFile]
    /\ fc_clock = 0

\* time passes between two calls
FastTick ==
    /\ fc_clock < MaxFastTime
    /\ fc_clock' = fc_clock + 1
    /\ UNCHANGED <<fc_pc, fc_query, fc_target, fc_min_score, fc_result,
                   fc_cached, fc_cache>>
    /\ FastOnly

\* one call of fetch_mass_comments, lines 37-85: answered from the cache
\* file of the query when it is valid, otherwise by a run of the fetcher
\* whose result is written to the file
FastFetch(query, target, min_score, outcome) ==
    /\ fc_query' = query
    /\ fc_target' = target
    /\ fc_min_score' = min_score
    /\ LET file == CacheFile(query)
       IN  IF IsCacheValid(file)
           THEN /\ fc_result' = fc_cache[file].comments
                /\ fc_cached' = TRUE
                /\ fc_pc' = "returned"
                /\ UNCHANGED fc_cache
           ELSE /\ fc_cached' = FALSE
                /\ IF outcome.raised
                   THEN /\ fc_pc' = "raised"
                        /\ fc_result' = <<>>
                        /\ UNCHANGED fc_cache
                   ELSE /\ fc_pc' = "returned"
                        /\ fc_result' = FetchedComments(outcome.value, target)
                        /\ fc_cache' = [fc_cache EXCEPT ![file] =
                               [comments |-> FetchedComments(outcome.value, target),
                                query |-> query,
                                mtime |-> fc_clock]]
    /\ UNCHANGED fc_clock
    /\ FastOnly

FastNext ==
    \/ FastTick
    \/ \E query \in FastQueries, target \in FastTargets,
          min_score \in FastMinScores :
          \E outcome \in {Raised} \cup {Returned(v) : v \in FastFound(min_score)} :
              \* no run of the fetcher when the cache answers
              /\ IsCacheValid(CacheFile(query)) => outcome = Raised
              /\ FastFetch(query, target, min_score, outcome)

-----------------------------------------------------------------------------
(* The specifications *)

\* the variables of a part that does not run
OrchIdle ==
    /\ pc = "idle"
    /\ target_comments = 0
    /\ strat_pending = {}
    /\ all_posts = <<>>
    /\ posts_to_process = <<>>
    /\ fetch_pending = {}
    /\ fetch_started = {}
    /\ strat_account = <<>>
    /\ fetch_account = <<>>
    /\ comments_by_id = <<>>
    /\ final = <<>>
    /\ last_merged = [i \in Ids |-> None]
    /\ replaced = FALSE

CfIdle ==
    /\ cf_pc = "idle"
    /\ cf_attempt = 0
    /\ cf_min_score = 0
    /\ cf_query = <<>>
    /\ cf_data = NoData
    /\ cf_results = <<>>
    /\ cf_post_counts = <<>>

PbIdle ==
    /\ pb_pc = "idle"
    /\ pb_query = <<>>
    /\ pb_account_idx = 0
    /\ pb_attempts = 0
    /\ pb_tried = <<>>
    /\ pb_posts = <<>>
    /\ pb_result = <<>>

\* account_idx of fetch_comments_lightweight is 0 by default
RetryIdle ==
    /\ cf_account_idx = 0
    /\ cf_tried = <<>>
    /\ PbIdle

RelIdle ==
    /\ rel_pc = "idle"
    /\ rel_text = <<>>
    /\ rel_query = <<>>
    /\ rel_relaxed = FALSE
    /\ rel_result = FALSE

FastIdle ==
    /\ fc_pc = "idle"
    /\ fc_query = <<>>
    /\ fc_target = 0
    /\ fc_min_score = 0
    /\ fc_result = <<>>
    /\ fc_cached = FALSE
    /\ fc_cache = <<>>
    /\ fc_clock = 0

RateIdle ==
    /\ now = 0
    /\ tokens = [a \in Sessions |-> Capacity]
    /\ last = [a \in Sessions |-> 0]
    /\ rate_limited_until = [a \in Sessions |-> 0]
    /\ access_token = [a \in Sessions |-> NoToken]
    /\ token_expires_at = [a \in Sessions |-> 0]
    /\ next_available = [a \in Sessions |-> 0]
    /\ lock = [a \in Sessions |-> 0]
    /\ th_pc = [w \in Workers |-> "idle"]
    /\ th_start = [w \in Workers |-> 0]
    /\ th_acc = [w \in Workers |-> 0]
    /\ th_token = [w \in Workers |-> NoToken]
    /\ th_owed = [w \in Workers |-> NoToken]
    /\ rejected = [a \in Sessions |-> FALSE]
    /\ answered = [a \in Sessions |-> NoAnswer]
    /\ gets_done = [a \in Sessions |-> 0]
    /\ limited_by = [a \in Sessions |-> "other"]
    /\ refill_capped = FALSE
    /\ blocked_in_cooldown = FALSE
    /\ returned_failed = FALSE

\* one run of fetch_mass_comments
Init == OrchInit /\ CfIdle /\ RateIdle /\ RelIdle /\ FastIdle /\ RetryIdle
Next == OrchNext
Spec == Init /\ [][Next]_vars

\* one call of fetch_comments_lightweight
InitComments == CfInit /\ OrchIdle /\ RateIdle /\ RelIdle /\ FastIdle /\ RetryIdle
SpecComments == InitComments /\ [][CfNext]_vars

\* worker threads calling _safe_get on a shared account session
InitRate == RateInit /\ OrchIdle /\ CfIdle /\ RelIdle /\ FastIdle /\ RetryIdle
SpecRate == InitRate /\ [][RateNext]_vars

\* worker threads calling _authenticate_account through _safe_get
InitAuth == AuthInit /\ OrchIdle /\ CfIdle /\ RelIdle /\ FastIdle /\ RetryIdle
SpecAuth == InitAuth /\ [][AuthNext]_vars

\* the submission of the comment fetches after a large discovery
InitSubmit == SubmitInit /\ CfIdle /\ RateIdle /\ RelIdle /\ FastIdle /\ RetryIdle
SpecSubmit == InitSubmit /\ [][SubmitNext]_vars

\* a thread in _safe_get with a cached token
InitCooldown == CooldownInit /\ OrchIdle /\ CfIdle /\ RelIdle /\ FastIdle /\ RetryIdle
SpecCooldown == InitCooldown /\ [][CooldownNext]_vars

\* the loops of SpecRetry take their turns: each turn is a call of _safe_get,
\* which returns (wait_for_token has a timeout, the requests have one)
FairRetry == WF_vars(RetryNext)

\* two worker threads calling _safe_get with a cached token, the GETs counted
InitBucket == BucketInit /\ OrchIdle /\ CfIdle /\ RelIdle /\ FastIdle /\ RetryIdle
SpecBucket == InitBucket /\ [][BucketNext]_vars

\* three threads calling TokenBucket.wait_for_token
InitWait == WaitInit /\ OrchIdle /\ CfIdle /\ RelIdle /\ FastIdle /\ RetryIdle
SpecWait == InitWait /\ [][WaitNext]_vars
SpecWaitFair == SpecWait /\ FairWait

\* one call of fetch_posts_batch, or one of fetch_comments_lightweight
InitRetry ==
    /\ \/ PbInit /\ CfIdle /\ cf_account_idx = 0 /\ cf_tried = <<>>
       \/ CfRetryInit /\ PbIdle
    /\ OrchIdle /\ RateIdle /\ RelIdle /\ FastIdle
SpecRetry == InitRetry /\ [][RetryNext]_vars
SpecRetryFair == SpecRetry /\ FairRetry

\* calls of FastRedditFetcher.fetch_mass_comments, one after the other
InitFast ==
    FastInit /\ OrchIdle /\ CfIdle /\ RateIdle /\ RelIdle /\ RetryIdle
SpecFast == InitFast /\ [][FastNext]_vars

\* one call of is_relevant
InitRelevance ==
    RelInit /\ OrchIdle /\ CfIdle /\ RateIdle /\ RetryIdle /\ FastIdle
SpecRelevance == InitRelevance /\ [][RelNext]_vars


-----------------------------------------------------------------------------
(* Properties of fetch_mass_comments, checked under Spec *)

Returned_ == pc = "done"
NoDuplicateIds(seq) ==
    \A i, j \in DOMAIN seq : seq[i].id = seq[j].id => i = j

\* C1: whatever the per-post fetches return and in whatever order they
\* complete, the returned comments list holds no comment id twice, and every
\* id it holds was delivered by a fetch; the dedup map never holds an id twice
C1_Dedup ==
    /\ NoDuplicateIds(comments_by_id)
    /\ Returned_ =>
          /\ NoDuplicateIds(final)
          /\ \A i \in DOMAIN final : last_merged[final[i].id] # None

\* a run returned two comments although a fetch re-delivered a held id
C1_Witness == Returned_ /\ replaced /\ Len(final) >= 2

\* C2: the returned list is ordered by score, non-increasing
C2_Sorted ==
    Returned_ =>
        \A i \in 1 .. (Len(final) - 1) : final[i].score >= final[i + 1].score

\* the dedup map held a lower score before a higher one, and both were returned
C2_Witness ==
    /\ Returned_
    /\ Len(final) >= 2
    /\ Len(final) = Len(comments_by_id)
    /\ \E i \in 1 .. (Len(comments_by_id) - 1) :
          comments_by_id[i].score < comments_by_id[i + 1].score

\* C3 as claimed: for every integer target_comments the returned list has at
\* most target_comments elements
C3_TruncationAnyTarget == Returned_ => Len(final) <= target_comments

\* C3 amended: for every target_comments >= 0 the returned list has at most
\* target_comments elements
C3_TruncationNonNegative ==
    (Returned_ /\ target_comments >= 0) => Len(final) <= target_comments

\* one completed fetch pushed the dedup map above a positive target and the
\* returned list was cut to the target
C3_Witness ==
    /\ Returned_
    /\ target_comments >= 1
    /\ Len(comments_by_id) > target_comments
    /\ Len(final) = target_comments

\* C5 as claimed: first-seen wins, a merge never replaces an entry the dedup
\* map already holds
C5_FirstSeenWins ==
    [][\A i \in DOMAIN comments_by_id : comments_by_id'[i] = comments_by_id[i]]_vars

\* C5 amended: last-merged wins, the dedup map holds for each id the instance
\* that was merged last, and holds every id that was merged
C5_LastMergedWins ==
    /\ \A i \in DOMAIN comments_by_id :
          comments_by_id[i] = last_merged[comments_by_id[i].id]
    /\ \A id \in Ids :
          last_merged[id] # None => DictIndex(comments_by_id, id) # 0

\* a merge delivered an id the map held with other content, and the run returned
C5_Witness == Returned_ /\ replaced

\* no strategy returned a post (the estimate of lines 400-401 is at least 199
\* for the targets of the model, so no discovered post is cut)
NoPostsFound ==
    pc \in {"finalizing", "fetching", "done", "raised"} /\ posts_to_process = <<>>

\* C6 as claimed: when no strategy returns a post the run raises instead of
\* returning a result
C6_NoPostsRaises == ~(Returned_ /\ NoPostsFound)

\* C6 amended: when no strategy returns a post the run does not raise, it
\* goes straight to finalization and returns an empty comments list
C6_NoPostsReturnsEmpty ==
    NoPostsFound =>
        /\ pc \in {"finalizing", "done"}
        /\ comments_by_id = <<>>
        /\ final = <<>>

\* a run in which no strategy returned a post has returned
C6_Witness == Returned_ /\ NoPostsFound

\* C7: once a strategy has returned posts, the run never raises
C7_NeverRaises ==
    (posts_to_process # <<>>) => pc # "raised"

-----------------------------------------------------------------------------
(* Properties of fetch_comments_lightweight, checked under SpecComments *)

RECURSIVE AllNodes(_)
\* every node of a comment listing, at any depth
AllNodes(comment_list) ==
    IF comment_list = <<>> THEN {}
    ELSE {Head(comment_list)} \cup AllNodes(Head(comment_list).replies)
         \cup AllNodes(Tail(comment_list))

\* C4: every comment fetch_comments_lightweight emits has score >= min_score
\* and a stripped text of at least 10 characters that is no placeholder
C4_QualityGate ==
    \A i \in DOMAIN cf_results :
        /\ cf_results[i].score >= cf_min_score
        /\ cf_results[i].text = StrStrip(cf_results[i].text)
        /\ Len(cf_results[i].text) >= MinBodyLen
        /\ cf_results[i].text \notin Placeholders

\* a call emitted a comment from a tree that also held a comment under
\* min_score and a padded placeholder
C4_Witness ==
    /\ cf_pc = "returned"
    /\ cf_results # <<>>
    /\ \E n \in AllNodes(cf_data.children) : n.kind = "t1" /\ n.score < cf_min_score
    /\ \E n \in AllNodes(cf_data.children) :
          StrStrip(n.body) \in Placeholders /\ Len(n.body) >= MinBodyLen

\* C8: a call never raises: when the GET fails on every account or a
\* response body is malformed, it returns (an empty list)
C8_NeverRaises ==
    /\ cf_pc # "raised"
    /\ (cf_pc = "returned" /\ cf_data.shape # "listing") => cf_results = <<>>

-----------------------------------------------------------------------------
(* Properties of TokenBucket and _safe_get, checked under SpecRate *)

\* the account is in a cooldown that a 429 or an exhausted quota began
CooldownFromServer(a) ==
    /\ limited_by[a] \in {"429", "quota"}
    /\ rate_limited_until[a] > now

\* C9 as stated: after a 429 response or an exhausted-quota header, an
\* attempt to consume a token of that credential fails until the clock
\* passes the deadline of the cooldown, whatever the bucket holds.
C9_ConsumeBlocked ==
    [][\A w \in Workers :
          (th_pc[w] = "wait" /\ CooldownFromServer(AccountOf(w)))
              => th_pc'[w] # "check"]_vars

\* C9 as the code has it: consume does not look at the cooldown; a call of
\* _safe_get that tests the cooldown while the deadline set by a 429 or an
\* exhausted quota is in the future returns None, without authenticating or
\* sending a GET, and the token it consumed is not given back.
C9_CooldownBlocksGet ==
    [][\A w \in Workers :
          (/\ th_pc[w] = "check"
           /\ th_pc'[w] # "check"
           /\ CooldownFromServer(AccountOf(w)))
              => /\ th_pc'[w] = "idle"
                 /\ tokens' = tokens
                 /\ lock' = lock]_vars

\* a call was refused by the cooldown after its token was consumed
C9_Witness ==
    /\ blocked_in_cooldown
    /\ \E a \in Sessions : CooldownFromServer(a) /\ tokens[a] >= OneToken

\* C10: whatever the threads do and however much time passes between their
\* calls, a bucket never holds more tokens than its capacity.
C10_TokensWithinCapacity ==
    \A a \in Sessions : tokens[a] <= Capacity

\* a refill met the capacity while two threads had consumed
C10_Witness ==
    /\ refill_capped
    /\ \E a \in Sessions : tokens[a] <= Capacity - 2 * OneToken


-----------------------------------------------------------------------------
(* Properties of _authenticate_account, checked under SpecAuth *)

\* line 202 hands thread w a token in this step
ReceivesToken(w) == th_pc[w] # "get" /\ th_pc'[w] = "get"

\* C11: _authenticate_account never returns a token that is within the
\* buffer of its upstream expiry, a token it has just obtained included.
C11_SafetyMargin ==
    [][\A w \in DOMAIN th_pc :
          ReceivesToken(w)
              => now < UpstreamExpiry(th_token'[w]) - Secs(TokenBufferSeconds)]_vars

\* C12: at no time are two exchanges of one credential in flight, whatever
\* the interleaving of the worker threads.
C12_OneExchangePerCredential ==
    \A v, w \in DOMAIN th_pc :
        (th_pc[v] = "posting" /\ th_pc[w] = "posting" /\ th_acc[v] = th_acc[w])
            => v = w

\* exchanges of two credentials are in flight together
C12_Witness ==
    \E v, w \in DOMAIN th_pc :
        /\ th_pc[v] = "posting" /\ th_pc[w] = "posting"
        /\ th_acc[v] # th_acc[w]
        /\ lock[th_acc[v]] = v /\ lock[th_acc[w]] = w

\* thread w called no exchange of its own and holds nothing but token tok
SharesToken(w, tok) ==
    \/ th_pc[w] = "auth"
    \/ th_pc[w] = "get" /\ th_token[w] = tok

\* C13 as stated: a thread that waited for the lock of the session while
\* the exchange of another thread succeeded performs no exchange of its own
\* and returns the token of that exchange.
C13_OneExchange ==
    \A w \in DOMAIN th_pc : th_owed[w] # NoToken => SharesToken(w, th_owed[w])

\* C13 as the code has it: the same, for as long as the token of that
\* exchange passes the test of line 141, which takes an expires_in of more
\* than twice the buffer beyond the time the thread spends waiting.
C13_SharedWhileValid ==
    \A w \in DOMAIN th_pc :
        (/\ th_owed[w] # NoToken
         /\ now < UpstreamExpiry(th_owed[w]) - 2 * Secs(TokenBufferSeconds))
            => SharesToken(w, th_owed[w])

\* a thread that waited returned the token of the exchange of the other
C13_Witness ==
    \E w \in DOMAIN th_pc :
        /\ th_pc[w] = "get"
        /\ th_owed[w] # NoToken
        /\ th_token[w] = th_owed[w]
        /\ access_token[th_acc[w]] = th_owed[w]

\* C14: once the upstream has rejected an exchange of a credential, no
\* further exchange and no further GET is sent with it.
C14_RejectedUnusable ==
    [][\A w \in DOMAIN th_pc :
          rejected[th_acc[w]]
              => /\ ~(th_pc[w] = "throttle" /\ th_pc'[w] = "posting")
                 /\ ~ReceivesToken(w)]_vars


-----------------------------------------------------------------------------
(* Properties of is_relevant, checked under SpecRelevance *)

RelReturned == rel_pc = "returned"
RelTerms == StrSplit(StrLower(rel_query))
PhraseInText == IsSubstring(StrLower(rel_query), StrLower(rel_text))
TermInText(i) == IsSubstring(RelTerms[i], StrLower(rel_text))
NumTermsInText == Cardinality({i \in DOMAIN RelTerms : TermInText(i)})

\* C15: with a query of one term is_relevant returns True exactly when the
\* lowercased query is a substring of the lowercased text, in both modes;
\* with an empty text or an empty query it returns False.
C15_SingleTerm ==
    RelReturned =>
        /\ (Len(RelTerms) = 1 => rel_result = PhraseInText)
        /\ (rel_text = <<>> \/ rel_query = <<>>) => rel_result = FALSE

\* a one-term query in mixed case matched a text in another case
C15_Witness ==
    /\ RelReturned
    /\ Len(RelTerms) = 1
    /\ rel_result
    /\ ~IsSubstring(rel_query, rel_text)
    /\ rel_relaxed

-----------------------------------------------------------------------------
(* The engagement rule, checked under SpecComments *)

RECURSIVE SumSeq(_)
SumSeq(counts) == IF counts = <<>> THEN 0 ELSE Head(counts) + SumSeq(Tail(counts))

\* of comment counts in non-increasing order: median < 5, mean < 10 or the
\* average of the five highest < 8
LowEngagement(counts) ==
    LET n == Len(counts)
        top == SubSeq(counts, 1, Min2(5, n))
    IN  \/ (IF n % 2 = 1 THEN counts[(n + 1) \div 2] < 5
            ELSE counts[n \div 2] + counts[n \div 2 + 1] < 2 * 5)
        \/ SumSeq(counts) < 10 * n
        \/ SumSeq(top) < 8 * Len(top)

\* C18: the run filters in relaxed mode when its posts are of low
\* engagement and in strict mode otherwise: every comment a fetch of the run
\* emits for a query passes is_relevant in the mode of the run.
C18_EngagementRule ==
    cf_query # <<>> =>
        \A i \in DOMAIN cf_results :
            is_relevant(cf_results[i].text, cf_query, LowEngagement(cf_post_counts))


-----------------------------------------------------------------------------
(* The early exit of phase 2, checked under Spec *)

\* C19: once the dedup map holds target_comments comments no further fetch
\* of a comment tree is started (stated for a positive target).
C19_NoLateStart ==
    [][\A i \in fetch_pending :
          (target_comments > 0 /\ i \notin fetch_started /\ i \in fetch_started')
              => Len(comments_by_id) < target_comments]_vars


-----------------------------------------------------------------------------
(* The merged post list, checked under Spec *)

\* C20: after the discovery phase, in whatever order the strategies
\* completed, the merged post list holds each post id at most once and is
\* in non-increasing order of num_comments.
C20_RankedPosts ==
    pc = "ranked" =>
        /\ NoDuplicateIds(all_posts)
        /\ \A i, j \in DOMAIN all_posts :
               i < j => all_posts[i].num_comments >= all_posts[j].num_comments

\* two strategies found different posts, ranked with the busier one first
C20_Witness ==
    /\ pc = "ranked"
    /\ Len(all_posts) = 2
    /\ all_posts[1].num_comments > all_posts[2].num_comments
    /\ all_posts[1].id > all_posts[2].id


-----------------------------------------------------------------------------
(* The phases of a run *)

\* DISCOVERING is phase 1 (lines 377-390), CLASSIFYING the ranking and the
\* estimate (lines 392-402), FETCHING phase 2 up to the end of its "with"
\* block (lines 407-433), FINALIZED what follows the final sort and
\* truncation (lines 435-437); a run that raised has ended
PhaseRank(p) ==
    CASE p = "discovering" -> 1
      [] p = "ranked" -> 2
      [] p \in {"fetching", "finalizing"} -> 3
      [] OTHER -> 4

\* C21: a run goes through discovery, ranking, fetching and the final sort
\* in that order and never back: no comment fetch is submitted or started
\* while a discovery strategy is still out, and once the final sort and
\* truncation are done no fetch is outstanding and the comment set does not
\* change any more
C21_PhaseOrder ==
    [][ /\ PhaseRank(pc') >= PhaseRank(pc)
        /\ (fetch_pending' # {} => strat_pending' = {})
        /\ (fetch_started' # fetch_started => strat_pending = {})
        /\ (pc' = "done" => fetch_pending' = {})
        /\ (pc = "done" => comments_by_id' = comments_by_id) ]_vars

\* a run went through every phase: posts were discovered, their fetches
\* merged, and the final list is not empty
C21_Witness ==
    /\ pc = "done"
    /\ posts_to_process # <<>>
    /\ fetch_started # {}
    /\ final # <<>>

-----------------------------------------------------------------------------
(* The accounts of the submissions *)

\* the submissions of a phase, in order, bound to account of[i]: the i-th
\* (from 0) is bound to i mod N, any N consecutive ones to N different
\* accounts, and no account gets two submissions more than another
RoundRobin(of) ==
    /\ \A i \in DOMAIN of : of[i] = (i - 1) % NumAccounts
    /\ \A i, j \in DOMAIN of :
           (i < j /\ j - i < NumAccounts) => of[i] # of[j]
    /\ \A a, b \in 0 .. (NumAccounts - 1) :
           Cardinality({i \in DOMAIN of : of[i] = a})
              <= Cardinality({i \in DOMAIN of : of[i] = b}) + 1

-----------------------------------------------------------------------------
(* The depth of the emitted comments *)

\* the nesting depth of the t1 node of this id in a listing, top level 0;
\* -1 when the listing has no such node
RECURSIVE NestingOf(_, _, _)
NestingOf(comment_list, id, depth) ==
    IF comment_list = <<>> THEN 0 - 1
    ELSE LET c == Head(comment_list)
             inner == NestingOf(c.replies, id, depth + 1)
         IN IF c.kind = "t1" /\ c.id = id THEN depth
            ELSE IF inner >= 0 THEN inner
            ELSE NestingOf(Tail(comment_list), id, depth)

\* the deepest nesting of a listing among the t1 nodes that pass the gate and
\* the keyword test, -1 when there is none
RECURSIVE DeepestKeepable(_, _)
DeepestKeepable(comment_list, depth) ==
    IF comment_list = <<>> THEN 0 - 1
    ELSE LET c == Head(comment_list)
             here == IF /\ c.kind = "t1"
                        /\ PassesGate(c.score, StrStrip(c.body), cf_min_score)
                        /\ PassesKeywords(StrStrip(c.body), cf_data.title, cf_query)
                     THEN depth ELSE 0 - 1
         IN Max2(here, Max2(DeepestKeepable(c.replies, depth + 1),
                            DeepestKeepable(Tail(comment_list), depth)))

\* C27: no emitted comment is nested deeper than the maximum depth 3, the
\* top-level comments being at depth 0, whatever the depth and shape of the
\* comment tree
C27_DepthBound ==
    cf_pc = "returned" =>
        \A k \in DOMAIN cf_results :
            NestingOf(cf_data.children, cf_results[k].id, 0) \in 0 .. MaxReplyDepth

\* a tree with a comment below the maximum depth that would pass every
\* filter, of which the comment at the maximum depth was emitted
C27_Witness ==
    /\ cf_pc = "returned"
    /\ DeepestKeepable(cf_data.children, 0) > MaxReplyDepth
    /\ \E k \in DOMAIN cf_results :
           NestingOf(cf_data.children, cf_results[k].id, 0) = MaxReplyDepth

-----------------------------------------------------------------------------
(* The relaxed-mode test table, checked under SpecRelevance *)

\* C25: in relaxed mode, with the query of four terms, a text that holds
\* exactly two of the four terms and not the phrase is kept, as the test
\* table of testing.py expects
C25_TwoOfFourKept ==
    (/\ RelReturned /\ rel_relaxed
     /\ rel_query = QueryFour
     /\ ~PhraseInText
     /\ NumTermsInText = 2)
        => rel_result

-----------------------------------------------------------------------------
(* The comment filter against is_relevant, checked under SpecComments *)

\* C26: with a query of several terms, every comment the call kept has the
\* phrase or every term of the query in its text and post title, as the
\* strict is_relevant of testing.py demands
C26_KeptAreRelevant ==
    (cf_pc = "returned" /\ Len(StrSplit(StrLower(cf_query))) >= 2) =>
        \A k \in DOMAIN cf_results :
            is_relevant(cf_results[k].text \o <<" ">> \o cf_results[k].post_title,
                        cf_query, FALSE)

-----------------------------------------------------------------------------
(* The lock discipline, checked under SpecRate *)

\* C30: the cooldown deadline of an account, like its token and its bucket,
\* is only written by a thread that holds the lock of that account
C30_WritesUnderLock ==
    [][ \A w \in DOMAIN th_pc :
            ( /\ th_pc'[w] # th_pc[w]
              /\ rate_limited_until'[AccountOf(w)] # rate_limited_until[AccountOf(w)] )
                => lock[AccountOf(w)] = w ]_vars

-----------------------------------------------------------------------------
(* The work bound, checked under SpecSubmit *)

\* the step that submits: with at most this many fetches, and those of the
\* first posts of the ranking
SubmitsAtMost(most) ==
    (pc = "ranked" /\ pc' # "ranked") =>
        /\ Len(posts_to_process') <= most
        /\ Len(posts_to_process') <= Len(all_posts)
        /\ posts_to_process' =
               Permalinks(SubSeq(all_posts, 1, Len(posts_to_process')))
        /\ fetch_pending' = DOMAIN posts_to_process'

\* C28 as stated: a fetch is submitted for at most target_comments / 30 + 100
\* posts and at most the posts discovered, and for exactly the highest-ranked
\* posts by comment count
C28_BoundHundred ==
    [][SubmitsAtMost(target_comments \div 30 + 100)]_vars

\* C28 as the code has it: for target_comments >= 0 the bound is
\* target_comments // 30 + 200
C28_BoundTwoHundred ==
    [][ target_comments >= 0 =>
          /\ SubmitsAtMost(target_comments \div 30 + 200)
          /\ (pc = "ranked" /\ pc' # "ranked" =>
                 Len(posts_to_process') =
                     Min2(Len(all_posts), target_comments \div 30 + 200)) ]_vars

\* more posts were found than the estimate lets through: the post with the
\* most comments leads the submitted ones, the last ones were cut
C28_Witness ==
    /\ pc = "fetching"
    /\ target_comments >= 0
    /\ Len(posts_to_process) = target_comments \div 30 + 200
    /\ posts_to_process[1] > Len(posts_to_process)
    /\ Cardinality(fetch_pending) = Len(posts_to_process)

-----------------------------------------------------------------------------
(* The cooldown after a rate-limit signal, checked under SpecCooldown *)

\* C22: after an answer with status 429 or with an exhausted quota header,
\* the cooldown deadline of the account is the time of the answer plus the
\* reset hint of the answer plus a jitter that is not negative: it is at
\* least the reset hint away, also when the answer carries both signals
C22_CooldownCoversReset ==
    [][ \A w \in DOMAIN th_pc :
            ( /\ th_pc[w] = "get" /\ th_pc'[w] = "idle"
              /\ \/ answered'[AccountOf(w)].status = 429
                 \/ answered'[AccountOf(w)].exhausted )
                => rate_limited_until'[AccountOf(w)]
                       >= now + answered'[AccountOf(w)].reset ]_vars

-----------------------------------------------------------------------------
(* Rate-limit signals in the retry loops, checked under SpecRetry *)

\* the turn after turn i of a loop asked the next account
NextAsked(tried, i) == tried[i + 1].acc = (tried[i].acc + 1) % NumAccounts

\* every turn of a loop that met one of these answers was followed by a turn
\* on the next account, or was the last turn the loop had, or the loop is
\* about to take its next turn
Retried(tried, signals, calling, turns) ==
    \A i \in DOMAIN tried :
        tried[i].answer \in signals =>
            IF i < Len(tried) THEN NextAsked(tried, i)
            ELSE calling \/ Len(tried) = turns

\* C23 as stated: a request that met a 429 or an exhausted quota on account
\* k is retried on account (k+1) mod N while attempts remain, in
\* fetch_posts_batch and in fetch_comments_lightweight
C23_SignalRetried ==
    /\ Retried(pb_tried, {"429", "ok_exhausted"}, pb_pc = "calling", MaxAttempts)
    /\ Retried(cf_tried, {"429", "ok_exhausted"}, cf_pc = "calling", NumAccounts)

\* the turns that got an answer with an ok status, an exhausted quota header
\* and a body that parses were the last of their loop
Processed(tried, calling) ==
    \A i \in DOMAIN tried :
        (tried[i].answer = "ok_exhausted" /\ tried[i].shape # "not_json")
            => (i = Len(tried) /\ ~calling)

\* C23 as the code has it: a request that met a 429 on account k is retried
\* on account (k+1) mod N while attempts remain, and when none remain
\* fetch_posts_batch raises and fetch_comments_lightweight returns the empty
\* list; an ok answer with an exhausted quota header is processed and not
\* retried
C23_ThrottledRetried ==
    /\ Retried(pb_tried, {"429"}, pb_pc = "calling", MaxAttempts)
    /\ Retried(cf_tried, {"429"}, cf_pc = "calling", NumAccounts)
    /\ Processed(pb_tried, pb_pc = "calling")
    /\ Processed(cf_tried, cf_pc = "calling")
    /\ (pb_tried # <<>> /\ pb_tried[Len(pb_tried)].answer = "429"
           /\ Len(pb_tried) = MaxAttempts) => pb_pc = "raised"
    /\ (cf_tried # <<>> /\ cf_tried[Len(cf_tried)].answer = "429"
           /\ Len(cf_tried) = NumAccounts) => (cf_pc = "returned" /\ cf_results = <<>>)

\* a search that met a 429 on its first account got its posts from the next
\* one, whose answer showed the quota exhausted
C23_Witness ==
    /\ pb_pc = "returned"
    /\ Len(pb_tried) = 2
    /\ pb_tried[1].answer = "429"
    /\ pb_tried[2].answer = "ok_exhausted"
    /\ pb_tried[2].acc = (pb_tried[1].acc + 1) % NumAccounts
    /\ pb_result # <<>>

-----------------------------------------------------------------------------
(* The two relevance filters of the fetcher, checked under SpecRetry *)

\* C24: the filter of the discovery phase and the filter of the comment
\* phase give the same answer for the same text and query: a post that is
\* not skipped for its kind is kept exactly when the comment filter keeps
\* the same two texts
C24_SameDecision ==
    pb_pc = "returned" =>
        \A i \in DOMAIN pb_posts :
            ~PostSkipped(pb_posts[i]) =>
                ( (\E k \in DOMAIN pb_result : pb_result[k] = pb_posts[i])
                  <=> PassesKeywords(pb_posts[i].title, pb_posts[i].selftext,
                                     pb_query) )


-----------------------------------------------------------------------------
(* The two modes of is_relevant compared, checked under SpecRelevance *)

\* C37: relaxed mode is never stricter than strict mode: for every text and
\* every query, a call is_relevant(text, query, relaxed=False) that returns
\* True has a relaxed call on the same text and query that returns True, and
\* a relaxed call returns True whenever the strict one does. (A query of
\* blanks splits into no terms: all() over no terms is True in strict mode,
\* while relaxed mode requires max(1, 0 // 2 + 1) = 1 term present.)
C37_RelaxedNotStricter ==
    RelReturned =>
        /\ (~rel_relaxed /\ rel_result)
               => is_relevant(rel_text, rel_query, TRUE)
        /\ (rel_relaxed /\ is_relevant(rel_text, rel_query, FALSE))
               => rel_result


-----------------------------------------------------------------------------
(* The loop of fetch_posts_batch, checked under SpecRetryFair *)

\* the turn i of the loop failed: _safe_get returned None, or the body of
\* the response could not be read
TurnFailed(i) ==
    \/ ~ReturnsResponse(pb_tried[i].answer)
    \/ pb_tried[i].shape = "not_json"

\* the posts of the response that are no media, have text, and have a
\* keyword of the query in their title or text
FilteredPosts ==
    SelectSeq(pb_posts,
              LAMBDA p : /\ ~PostSkipped(p)
                         /\ PostPassesKeywords(p.title, p.selftext, pb_query))

PostsLoopBounded ==
    pb_pc # "idle" =>
        /\ Len(pb_tried) = pb_attempts
        /\ pb_attempts <= 2 * NumAccounts
        /\ pb_pc = "calling" => \A i \in DOMAIN pb_tried : TurnFailed(i)
        /\ \A i \in DOMAIN pb_tried :
               (i < Len(pb_tried) /\ TurnFailed(i))
                   => pb_tried[i + 1].acc = (pb_tried[i].acc + 1) % NumAccounts
        /\ pb_pc = "returned" =>
               /\ pb_tried # <<>>
               /\ \A i \in DOMAIN pb_tried : TurnFailed(i) <=> i < Len(pb_tried)
               /\ pb_result = FilteredPosts
        /\ pb_pc = "raised" =>
               /\ Len(pb_tried) = 2 * NumAccounts
               /\ \A i \in DOMAIN pb_tried : TurnFailed(i)

\* C35: fetch_posts_batch with N credentials makes at most 2N request
\* attempts, goes to the next credential (mod N) after each failed attempt,
\* returns the filtered posts of the first attempt whose response can be
\* read, raises only when all 2N attempts failed, and always terminates.
C35_PostsLoopTerminates ==
    /\ []PostsLoopBounded
    /\ <>(pb_pc # "calling")

\* a call that returned posts from its last allowed attempt, after 2N - 1
\* failed ones over both accounts
C35_Witness ==
    /\ pb_pc = "returned"
    /\ Len(pb_tried) = 2 * NumAccounts
    /\ pb_result # <<>>
    /\ \E i \in DOMAIN pb_tried : pb_tried[i].shape = "not_json"
    /\ {pb_tried[i].acc : i \in DOMAIN pb_tried} = 0 .. (NumAccounts - 1)

\* C38: for every non-empty query, the queries whose words all have at most
\* two characters included, a post that is no media, has text, and has the
\* query phrase in its title + body is never dropped by the filter of
\* fetch_posts_batch.
C38_PhraseKept ==
    (pb_pc = "returned" /\ pb_query # <<>>) =>
        \A i \in DOMAIN pb_posts :
            ( /\ ~PostSkipped(pb_posts[i])
              /\ IsSubstring(StrLower(pb_query),
                             StrLower(pb_posts[i].title) \o <<" ">>
                                 \o StrLower(pb_posts[i].selftext)) )
                => \E k \in DOMAIN pb_result : pb_result[k] = pb_posts[i]


-----------------------------------------------------------------------------
(* The flattening of extract_comments, checked under SpecComments *)

\* C36: the flattening is per comment: a reply within the maximum depth
\* that itself passes the quality gate (score, length, placeholder,
\* relevance) is emitted, also when its parent comment was dropped.
C36_RepliesOfDroppedKept ==
    cf_pc = "returned" =>
        \A c \in AllNodes(cf_data.children) :
            ( /\ c.kind = "t1"
              /\ NestingOf(cf_data.children, c.id, 0) \in 0 .. MaxReplyDepth
              /\ PassesGate(c.score, StrStrip(c.body), cf_min_score)
              /\ PassesKeywords(StrStrip(c.body), cf_data.title, cf_query) )
                => \E k \in DOMAIN cf_results : cf_results[k].id = c.id


-----------------------------------------------------------------------------
(* The cooldown under concurrent callers, checked under SpecRate *)

\* C31: under any interleaving of the worker threads that share a
\* credential, no GET is sent with that credential at a moment when its
\* cooldown deadline rate_limited_until lies in the future, also when its
\* bucket has tokens.
C31_NoGetInCooldown ==
    [][\A w \in Workers :
          (th_pc[w] # "get" /\ th_pc'[w] = "get")
              => rate_limited_until[AccountOf(w)] <= now]_vars


-----------------------------------------------------------------------------
(* What _safe_get hands back, checked under SpecRate *)

\* the positions of a call of _safe_get: none of them is outside the function
\* with an exception in flight
CallPositions == {"idle", "wait", "check", "auth", "throttle", "posting", "get"}

\* C32: _safe_get never raises and never returns a failed response: when no
\* token came within the wait timeout, when the credential is in cooldown,
\* when the token exchange failed, on a network exception, on a 429, on a
\* 5xx and on any other status of 400 or above it returns None, and a
\* response it returns has a status below 400.
C32_NoneOnFailure ==
    /\ ~returned_failed
    /\ \A w \in Workers : th_pc[w] \in CallPositions

\* calls were over after a 429 and after the test of the cooldown the 429
\* had set, each with None
C32_Witness ==
    /\ \E a \in Sessions : limited_by[a] = "429" /\ rate_limited_until[a] > now
    /\ blocked_in_cooldown
    /\ \A w \in Workers : th_pc[w] = "idle"
    /\ ~returned_failed


-----------------------------------------------------------------------------
(* The rate bound of the bucket, checked under SpecBucket *)

\* the calls of _safe_get on account a that hold a consumed token and have
\* not sent their GET yet, and those whose GET is with the upstream
HoldingToken(a) ==
    Cardinality({w \in Workers : th_acc[w] = a /\ th_pc[w] \in {"check", "auth"}})
InFlight(a) ==
    Cardinality({w \in Workers : th_acc[w] = a /\ th_pc[w] = "get"})
GetsSent(a) == gets_done[a] + InFlight(a)

\* C33: every GET of _safe_get is preceded by the consumption of exactly one
\* token of the bucket of its credential by the same call, so with a clock
\* that does not go back the number of GETs sent with a credential never
\* exceeds the burst capacity plus the tokens refilled (rate x elapsed
\* time), for any number of concurrent workers.
C33_RateBound ==
    \A a \in Sessions :
        /\ tokens[a] + (GetsSent(a) + HoldingToken(a)) * OneToken
               <= Capacity + RefillPerTick * last[a]
        /\ GetsSent(a) * OneToken <= Capacity + RefillPerTick * now

\* the two threads have sent every GET the bucket allowed by the end of the
\* clock: the burst and the refill of each tick
C33_Witness ==
    /\ now = MaxTime
    /\ \E a \in Sessions :
           /\ GetsSent(a) * OneToken = Capacity + RefillPerTick * now
           /\ InFlight(a) = Cardinality(Workers)


-----------------------------------------------------------------------------
(* wait_for_token, checked under SpecWaitFair *)

\* what consume() finds in the bucket of thread w at this moment (line 47)
Found(w) == Refill(tokens[AccountOf(w)], now - last[AccountOf(w)])

\* wait_for_token returns True only in a round that deducted exactly one
\* token
TrueOnlyWithToken ==
    [][\A w \in WaitWorkers :
          (th_pc[w] = "wait" /\ th_pc'[w] = "check")
              => /\ Found(w) >= OneToken
                 /\ tokens'[AccountOf(w)] = Found(w) - OneToken]_vars

\* wait_for_token returns False only with a timeout, more than the timeout
\* after its start, in a round that found no token and deducted none
FalseOnlyAfterTimeout ==
    [][\A w \in WaitWorkers :
          (th_pc[w] = "wait" /\ th_pc'[w] = "idle")
              => /\ TimeoutOf(w) # NoTimeout
                 /\ now - th_start[w] > TimeoutOf(w)
                 /\ Found(w) < OneToken
                 /\ tokens'[AccountOf(w)] = Found(w)]_vars

-----------------------------------------------------------------------------
(* The cache of FastRedditFetcher, checked under SpecFast *)

\* C39: FastRedditFetcher.fetch_mass_comments(query, target_comments,
\* min_score) returns at most target_comments comments, all with a score of
\* at least min_score, for every sequence of calls, a call answered from the
\* 24-hour cache written by an earlier call for the same query with another
\* target_comments or min_score included.
C39_CachedWithinArguments ==
    ( /\ fc_pc = "returned"
      /\ fc_cached => fc_cache[CacheFile(fc_query)].query = fc_query )
        => /\ Len(fc_result) <= fc_target
           /\ \A i \in DOMAIN fc_result : fc_result[i].score >= fc_min_score

=============================================================================
